---------------------------- MODULE Spec2Model ----------------------------
(***************************************************************************)
(* Model of read_dbf, the DBF attribute-table reader of                    *)
(* scripts/generate_complete_ta_data.py (lines 13-59); the copy in         *)
(* scripts/create_simplified_ta_geojson.py (lines 12-58) is the same text. *)
(*                                                                         *)
(* A file is a sequence of bytes (0..255).  A call of read_dbf is a small  *)
(* state machine over its local variables; each call p of Procs owns the   *)
(* record st[p] and the file file[p].                                      *)
(*                                                                         *)
(* Byte alphabet: the decoders below are exact for bytes 0..127 and for    *)
(* 248..255 (bytes that are never part of valid UTF-8).  The inputs are    *)
(* drawn from that range; multi-byte UTF-8 sequences, digit-group          *)
(* underscores and exponents in numeric text are outside the inputs.       *)
(***************************************************************************)
EXTENDS Integers, Sequences, FiniteSets, TLC

VARIABLES file, st, data_cache, gp, v1, qa, ca, ex, ta, osm

vars == <<file, st, data_cache, gp, v1, qa, ca, ex, ta, osm>>

\* The variables of the other programs, which read_dbf and get_places leave
\* alone.
others == <<v1, qa, ca, ex, ta, osm>>

\* The variables after v1, after qa, after ca, after ex and after ta.
afterV1 == <<qa, ca, ex, ta, osm>>

afterQa == <<ca, ex, ta, osm>>

afterCa == <<ex, ta, osm>>

afterEx == <<ta, osm>>

afterTa == <<osm>>

\* No request to get_places_v1.
V1Idle == [pc |-> "idle", filtering |-> FALSE, confidence_min |-> 0, status |-> 0]

\* No request to the quick API.
QaIdle ==
    [pc |-> "idle", bounds |-> <<>>, dataset |-> <<>>, limit |-> 0, df |-> <<>>,
     bounds_list |-> <<>>, result_data |-> <<>>, k |-> 0, result |-> <<>>, status |-> 0]

\* The two request threads of api/app.py and the keys of its cache.
Callers == {1, 2}

KEY_BOUNDARIES == "nz_sa2_boundaries_geojson"

KEY_DEMOGRAPHICS == "nz_religious_demographics_json"

CacheKeys == {KEY_BOUNDARIES, KEY_DEMOGRAPHICS}

\* A key the store does not hold, and what cache.get answers for it.
Absent == [present |-> FALSE, text |-> <<>>, expire |-> 0]

None == [none |-> TRUE, text |-> <<>>]

CallIdle == [pc |-> "idle", key |-> KEY_BOUNDARIES, cached |-> None, value |-> <<>>,
             ret |-> <<>>, error |-> FALSE]

\* The cache and the database of api/app.py with no request in flight.
CaIdle ==
    [now |-> 0, ticks |-> 0, cache |-> [k \in CacheKeys |-> Absent], db |-> <<>>, queries |-> 0,
     calls |-> 0, stored_at |-> [k \in CacheKeys |-> -1],
     call |-> [c \in Callers |-> CallIdle]]

\* The worker threads of extract_countries_parallel (max_workers = 2).
Workers == {1, 2}

WorkerIdle ==
    [pc |-> "idle", country |-> 0, retry_count |-> 0, requests |-> 0, server |-> 0,
     index |-> 0, caught |-> "none", result |-> "none", succeeded |-> FALSE,
     wrote |-> FALSE]

\* The extractor after __init__, with no country queued.
ExIdle ==
    [current_server |-> 0, calls |-> 0, queued |-> 0,
     cache_file |-> <<>>, th |-> [w \in Workers |-> WorkerIdle]]

\* No input file, as far as validate_ta_codes has read.
NoFile == [exists |-> FALSE, codes |-> <<>>, census |-> <<>>]

\* validate_ta_codes not called.
TaIdle ==
    [pc |-> "idle", boundaries_file |-> NoFile, census_file |-> NoFile,
     boundary_codes |-> <<>>, census |-> <<>>, k |-> 0, missing_mappings |-> 0,
     working_mappings |-> 0, result |-> "none"]

\* extract_places of scripts/extract_osm_places.py not called.
OsmIdle ==
    [pc |-> "idle", response |-> <<>>, raw_elements |-> <<>>, raw_saved |-> FALSE,
     places |-> <<>>, skipped |-> 0, k |-> 0, processed_saved |-> FALSE,
     summary |-> <<>>, result |-> "none"]

AfterTaIdle == osm = OsmIdle

AfterExIdle == ta = TaIdle /\ AfterTaIdle

AfterCaIdle == ex = ExIdle /\ AfterExIdle

AfterQaIdle == ca = CaIdle /\ AfterCaIdle

AfterV1Idle == qa = QaIdle /\ AfterQaIdle

OthersIdle == v1 = V1Idle /\ AfterV1Idle

---------------------------------------------------------------------------
(* Bounds of the input space.                                              *)

MaxFields == 2

MaxRecords == 2

---------------------------------------------------------------------------
(* Byte values the code names.                                             *)

FIELD_TERMINATOR == 13

DELETED_FLAG == 42

TYPE_C == 67

TYPE_N == 78

DOT == 46

NUL == 0

SPACE == 32

HEADER_SIZE == 32

DESCRIPTOR_SIZE == 32

Procs == {1, 2}

Min(a, b) == IF a < b THEN a ELSE b

Max(a, b) == IF a > b THEN a ELSE b

---------------------------------------------------------------------------
(* Python primitives used by read_dbf.                                     *)

\* bytes[a:b] for 0 <= a <= b: the bytes at 0-based offsets a .. b-1 that exist.
Slice(s, a, b) == SubSeq(s, a + 1, Min(b, Len(s)))

\* f.read(n) at position pos: the bytes that exist; none at or past the end.
FileRead(f, pos, n) == Slice(f, pos, pos + n)

\* Variant of UnpackLE that takes the first byte as the most significant.
UnpackBE(b) ==
    LET RECURSIVE be(_)
        be(k) == IF k = 0 THEN 0 ELSE b[k] + 256 * be(k - 1)
    IN be(Len(b))

\* struct.unpack('<H', b)[0] and struct.unpack('<I', b)[0] on a full-width slice.
UnpackLE(b) ==
    LET RECURSIVE le(_)
        le(k) == IF k > Len(b) THEN 0 ELSE b[k] + 256 * le(k + 1)
    IN le(1)

\* bytes.strip(): ASCII whitespace.
BytesWhitespace == {9, 10, 11, 12, 13, 32}

\* str.strip(): also the ASCII separators 0x1c..0x1f.
StrWhitespace == BytesWhitespace \cup (28..31)

RECURSIVE LStrip(_, _)
LStrip(s, ws) ==
    IF s # <<>> /\ Head(s) \in ws THEN LStrip(Tail(s), ws) ELSE s

RECURSIVE RStrip(_, _)
RStrip(s, ws) ==
    IF s # <<>> /\ s[Len(s)] \in ws THEN RStrip(SubSeq(s, 1, Len(s) - 1), ws) ELSE s

Strip(s, ws) == RStrip(LStrip(s, ws), ws)

\* bytes.decode('utf-8') raises on a byte that is not valid UTF-8.
Utf8Valid(b) == \A k \in 1..Len(b) : b[k] < 128

\* bytes.decode('utf-8', errors='ignore'): invalid bytes are dropped.
RECURSIVE Utf8DecodeIgnore(_)
Utf8DecodeIgnore(b) ==
    IF b = <<>> THEN <<>>
    ELSE IF Head(b) < 128 THEN <<Head(b)>> \o Utf8DecodeIgnore(Tail(b))
    ELSE Utf8DecodeIgnore(Tail(b))

---------------------------------------------------------------------------
(* Values of a decoded record.                                             *)

StrVal(t) == [kind |-> "str", text |-> t, num |-> 0, scale |-> 0]

IntVal(n) == [kind |-> "int", text |-> <<>>, num |-> n, scale |-> 0]

\* A float is num / 10^scale, with no trailing zero in the fraction.
RECURSIVE FloatVal(_, _)
FloatVal(m, s) ==
    IF s > 0 /\ m % 10 = 0 THEN FloatVal(m \div 10, s - 1)
    ELSE [kind |-> "float", text |-> <<>>, num |-> m, scale |-> s]

IsDigit(b) == b \in 48..57

AllDigits(s) == \A k \in 1..Len(s) : IsDigit(s[k])

RECURSIVE DigitsVal(_)
DigitsVal(s) ==
    IF s = <<>> THEN 0 ELSE 10 * DigitsVal(SubSeq(s, 1, Len(s) - 1)) + (s[Len(s)] - 48)

HasSign(v) == v # <<>> /\ Head(v) \in {43, 45}

Unsigned(v) == IF HasSign(v) THEN Tail(v) ELSE v

SignOf(v) == IF v # <<>> /\ Head(v) = 45 THEN -1 ELSE 1

\* int(value): an optional sign and at least one digit, nothing else.
IntParses(v) == Unsigned(v) # <<>> /\ AllDigits(Unsigned(v))

IntOf(v) == SignOf(v) * DigitsVal(Unsigned(v))

HasDot(v) == \E k \in 1..Len(v) : v[k] = DOT

FirstDot(v) == CHOOSE k \in 1..Len(v) : v[k] = DOT /\ \A j \in 1..(k - 1) : v[j] # DOT

IntPart(v) == SubSeq(Unsigned(v), 1, FirstDot(Unsigned(v)) - 1)

FracPart(v) == SubSeq(Unsigned(v), FirstDot(Unsigned(v)) + 1, Len(Unsigned(v)))

\* float(value) for a value that holds a '.': digits around one point, at
\* least one digit in all.
FloatParses(v) ==
    /\ HasDot(Unsigned(v))
    /\ AllDigits(IntPart(v))
    /\ AllDigits(FracPart(v))
    /\ Len(IntPart(v)) + Len(FracPart(v)) > 0

FloatOf(v) == FloatVal(SignOf(v) * DigitsVal(IntPart(v) \o FracPart(v)), Len(FracPart(v)))


---------------------------------------------------------------------------
(* The body of read_dbf, statement by statement.                           *)

\* Lines 29-32: one field descriptor entry, as the triple the code appends.
name_of(field_data) == Strip(Slice(field_data, 0, 11), {NUL})

field_type_of(field_data) == field_data[12]

field_len_of(field_data) == field_data[17]

FieldTuple(field_data) ==
    [name |-> name_of(field_data),
     field_type |-> field_type_of(field_data),
     field_len |-> field_len_of(field_data)]

\* Variant of NumericValue that stores a float without a fraction as an
\* integer.
NumericValueWholeAsInt(value) ==
    IF HasDot(value)
    THEN IF FloatParses(value)
         THEN IF FloatOf(value).scale = 0 THEN IntVal(FloatOf(value).num) ELSE FloatOf(value)
         ELSE IntVal(0)
    ELSE IF IntParses(value) THEN IntVal(IntOf(value)) ELSE IntVal(0)

\* Lines 45-55: the value stored for one field, from its slice of the record.
\* The bare except turns every parse failure into the integer 0.
NumericValue(value) ==
    IF HasDot(value)
    THEN IF FloatParses(value) THEN FloatOf(value) ELSE IntVal(0)
    ELSE IF IntParses(value) THEN IntVal(IntOf(value)) ELSE IntVal(0)

CharacterValue(value) == StrVal(Strip(Utf8DecodeIgnore(value), StrWhitespace))

FieldValue(record, offset, field_len) ==
    Strip(Slice(record, offset, offset + field_len), BytesWhitespace)

\* Variant of StoreField without the except branch's default: a Numeric
\* field that fails to parse is left out of record_data.
StoreFieldNoDefault(record_data, fld, value) ==
    IF fld.field_type = TYPE_C
    THEN (fld.name :> CharacterValue(value)) @@ record_data
    ELSE IF fld.field_type = TYPE_N /\ NumericValue(value) # IntVal(0)
    THEN (fld.name :> NumericValue(value)) @@ record_data
    ELSE record_data

\* Lines 46-55: record_data after the branch on field_type; a field of any
\* other type leaves record_data as it was.
StoreField(record_data, fld, value) ==
    IF fld.field_type = TYPE_C
    THEN (fld.name :> CharacterValue(value)) @@ record_data
    ELSE IF fld.field_type = TYPE_N
    THEN (fld.name :> NumericValue(value)) @@ record_data
    ELSE record_data

\* Variant of NextOffset that advances past the fields it stores only.
NextOffsetStoredOnly(offset, fld) ==
    IF fld.field_type \in {TYPE_C, TYPE_N} THEN offset + fld.field_len ELSE offset

\* Line 56.
NextOffset(offset, fld) == offset + fld.field_len

\* Lines 42-56: the loop over fields, from field k on.
RECURSIVE DecodeFrom(_, _, _, _, _)
DecodeFrom(record, fields, k, offset, record_data) ==
    IF k > Len(fields) THEN record_data
    ELSE DecodeFrom(record, fields, k + 1, NextOffset(offset, fields[k]),
                    StoreField(record_data, fields[k],
                               FieldValue(record, offset, fields[k].field_len)))

EmptyDict == [n \in {} |-> 0]

DecodeRecord(record, fields) == DecodeFrom(record, fields, 1, 1, EmptyDict)

\* Variant of IsDeleted with the test inverted.
IsDeletedInverted(record) == record[1] # DELETED_FLAG

\* Line 39.
IsDeleted(record) == record[1] = DELETED_FLAG

---------------------------------------------------------------------------
(* The local state of one call.                                            *)

NotCalled ==
    [pc |-> "idle", pos |-> 0, closed |-> TRUE, error |-> "none",
     num_records |-> 0, header_len |-> 0, record_len |-> 0,
     fields |-> <<>>, records |-> <<>>, i |-> 0]

Called == [NotCalled EXCEPT !.pc = "call"]

\* Variant of Raise for a file opened without a with block: an exception
\* leaves it open.
RaiseLeavesOpen(s, err) == [s EXCEPT !.pc = "raised", !.error = err]

\* Leaving the with block by an exception closes f (line 15).
Raise(s, err) == [s EXCEPT !.pc = "raised", !.error = err, !.closed = TRUE]

\* Line 15: open(filename, 'rb').
DoOpen(s) == [s EXCEPT !.pc = "header", !.closed = FALSE, !.pos = 0]

\* Lines 17-23: the 32-byte header, the three unpacks, seek(32).
DoReadHeader(f, s) ==
    LET header == FileRead(f, s.pos, HEADER_SIZE) IN
    IF Len(Slice(header, 4, 8)) # 4 \/ Len(Slice(header, 8, 10)) # 2
       \/ Len(Slice(header, 10, 12)) # 2
    THEN Raise(s, "struct.error")
    ELSE [s EXCEPT !.num_records = UnpackLE(Slice(header, 4, 8)),
                   !.header_len = UnpackLE(Slice(header, 8, 10)),
                   !.record_len = UnpackLE(Slice(header, 10, 12)),
                   !.fields = <<>>,
                   !.pos = HEADER_SIZE,
                   !.pc = "fields"]

\* Variant of FieldLoopContinues that leaves the loop at the 0x0D entry only.
FieldLoopToTerminator(s) == s.pos >= 0

\* Line 25.
FieldLoopContinues(s) == s.pos < s.header_len - 1

\* Variant of DoReadField in which a read at the end of the file is not an
\* error: the loop goes on.
DoReadFieldPastEnd(f, s) ==
    LET field_data == FileRead(f, s.pos, DESCRIPTOR_SIZE)
        at == [s EXCEPT !.pos = s.pos + Len(field_data)]
    IN  IF Len(field_data) = 0 THEN at
        ELSE IF field_data[1] = FIELD_TERMINATOR THEN [at EXCEPT !.pc = "seek"]
        ELSE IF ~Utf8Valid(name_of(field_data)) THEN Raise(at, "UnicodeDecodeError")
        ELSE IF Len(field_data) < 17 THEN Raise(at, "IndexError")
        ELSE [at EXCEPT !.fields = Append(s.fields, FieldTuple(field_data))]

\* Lines 26-32: one iteration of the descriptor loop.
DoReadField(f, s) ==
    LET field_data == FileRead(f, s.pos, DESCRIPTOR_SIZE)
        at == [s EXCEPT !.pos = s.pos + Len(field_data)]
    IN  IF Len(field_data) = 0 THEN Raise(at, "IndexError")
        ELSE IF field_data[1] = FIELD_TERMINATOR THEN [at EXCEPT !.pc = "seek"]
        ELSE IF ~Utf8Valid(name_of(field_data)) THEN Raise(at, "UnicodeDecodeError")
        ELSE IF Len(field_data) < 17 THEN Raise(at, "IndexError")
        ELSE [at EXCEPT !.fields = Append(s.fields, FieldTuple(field_data))]

\* Variant of DoSeekRecords without the seek of line 36.
DoSeekRecordsNoSeek(s) ==
    [s EXCEPT !.records = <<>>, !.i = 0, !.pc = "records"]

\* Lines 35-36.
DoSeekRecords(s) ==
    [s EXCEPT !.records = <<>>, !.i = 0, !.pos = s.header_len, !.pc = "records"]

\* Variant of AppendRecord that inserts at the front.
PrependRecord(records, record_data) == <<record_data>> \o records

\* Line 57, for a record that is not deleted.
AppendRecord(records, record_data) == Append(records, record_data)

\* Variant of DoReadRecord that decodes strictly: a record holding a byte
\* that is not text raises.
DoReadRecordStrict(f, s) ==
    LET record == FileRead(f, s.pos, s.record_len)
        at == [s EXCEPT !.pos = s.pos + Len(record), !.i = s.i + 1]
    IN  IF Len(record) = 0 THEN Raise(at, "IndexError")
        ELSE IF IsDeleted(record) THEN at
        ELSE IF ~Utf8Valid(record) THEN Raise(at, "UnicodeDecodeError")
        ELSE [at EXCEPT !.records = AppendRecord(s.records, DecodeRecord(record, s.fields))]

\* Lines 38-57: one iteration of the record loop.
DoReadRecord(f, s) ==
    LET record == FileRead(f, s.pos, s.record_len)
        at == [s EXCEPT !.pos = s.pos + Len(record), !.i = s.i + 1]
    IN  IF Len(record) = 0 THEN Raise(at, "IndexError")
        ELSE IF IsDeleted(record) THEN at
        ELSE [at EXCEPT !.records = AppendRecord(s.records, DecodeRecord(record, s.fields))]

\* Line 59, and the close on leaving the with block.
DoReturn(s) == [s EXCEPT !.pc = "returned", !.closed = TRUE]

---------------------------------------------------------------------------
(* Actions: one per step of a call.                                        *)

\* Variant of Update in which records is one list shared by all calls.
UpdateSharedRecords(p, s) ==
    st' = [q \in Procs |-> IF q = p THEN s ELSE [st[q] EXCEPT !.records = s.records]]

\* The variables of read_dbf are locals: a step of call p changes st[p] only.
Update(p, s) == st' = [st EXCEPT ![p] = s]

AtOpen(s) == s.pc = "call"

AtReadHeader(s) == s.pc = "header"

AtReadField(s) == s.pc = "fields" /\ FieldLoopContinues(s)

\* After the break of line 28, or when the test of line 25 fails.
AtSeekRecords(s) == s.pc = "seek" \/ (s.pc = "fields" /\ ~FieldLoopContinues(s))

\* Line 37: range(num_records).
AtReadRecord(s) == s.pc = "records" /\ s.i < s.num_records

AtReturn(s) == s.pc = "records" /\ s.i >= s.num_records

Finished(s) == s.pc \in {"returned", "raised"}

Open(p) ==
    /\ AtOpen(st[p])
    /\ Update(p, DoOpen(st[p]))
    /\ UNCHANGED <<file, data_cache, gp, others>>

ReadHeader(p) ==
    /\ AtReadHeader(st[p])
    /\ Update(p, DoReadHeader(file[p], st[p]))
    /\ UNCHANGED <<file, data_cache, gp, others>>

ReadField(p) ==
    /\ AtReadField(st[p])
    /\ Update(p, DoReadField(file[p], st[p]))
    /\ UNCHANGED <<file, data_cache, gp, others>>

SeekRecords(p) ==
    /\ AtSeekRecords(st[p])
    /\ Update(p, DoSeekRecords(st[p]))
    /\ UNCHANGED <<file, data_cache, gp, others>>

ReadRecord(p) ==
    /\ AtReadRecord(st[p])
    /\ Update(p, DoReadRecord(file[p], st[p]))
    /\ UNCHANGED <<file, data_cache, gp, others>>

Return(p) ==
    /\ AtReturn(st[p])
    /\ Update(p, DoReturn(st[p]))
    /\ UNCHANGED <<file, data_cache, gp, others>>

Next ==
    \E p \in Procs :
        \/ Open(p)
        \/ ReadHeader(p)
        \/ ReadField(p)
        \/ SeekRecords(p)
        \/ ReadRecord(p)
        \/ Return(p)

\* The next statement of a call, and the call run from s to its end with
\* nothing else running.
StepOf(f, s) ==
    CASE AtOpen(s) -> DoOpen(s)
      [] AtReadHeader(s) -> DoReadHeader(f, s)
      [] AtReadField(s) -> DoReadField(f, s)
      [] AtSeekRecords(s) -> DoSeekRecords(s)
      [] AtReadRecord(s) -> DoReadRecord(f, s)
      [] AtReturn(s) -> DoReturn(s)
      [] OTHER -> s

RECURSIVE RunFrom(_, _)
RunFrom(f, s) == IF Finished(s) \/ s.pc = "idle" THEN s ELSE RunFrom(f, StepOf(f, s))

read_dbf(f) == RunFrom(f, Called)

---------------------------------------------------------------------------
(* Input files.  A file is built byte by byte from a table description, so *)
(* that the reader above works on the bytes it would find on disk.         *)

Zeros(n) == [k \in 1..n |-> 0]

\* n as width little-endian bytes.
RECURSIVE LEBytes(_, _)
LEBytes(n, width) ==
    IF width = 0 THEN <<>> ELSE <<n % 256>> \o LEBytes(n \div 256, width - 1)

\* Bytes 0..3: version and date of last update; 12..31: reserved.
HeaderBytes(nrec, hlen, rlen) ==
    <<3, 118, 7, 14>> \o LEBytes(nrec, 4) \o LEBytes(hlen, 2) \o LEBytes(rlen, 2)
        \o Zeros(20)

DescriptorBytes(d) ==
    d.name \o Zeros(11 - Len(d.name)) \o <<d.field_type>> \o Zeros(4)
        \o <<d.field_len>> \o Zeros(15)

RECURSIVE Concat(_)
Concat(ss) == IF ss = <<>> THEN <<>> ELSE Head(ss) \o Concat(Tail(ss))

RECURSIVE SumLen(_)
SumLen(ds) == IF ds = <<>> THEN 0 ELSE Head(ds).field_len + SumLen(Tail(ds))

\* The descriptors a table may hold: a Character column, a Numeric column,
\* a Date column and a Character column of width 0.
ColA == [name |-> <<65>>, field_type |-> TYPE_C, field_len |-> 2]

ColB == [name |-> <<66>>, field_type |-> TYPE_N, field_len |-> 2]

ColD == [name |-> <<68>>, field_type |-> 68, field_len |-> 1]

ColZ == [name |-> <<90>>, field_type |-> TYPE_C, field_len |-> 0]

FieldChoices == {ColA, ColB, ColD, ColZ}

SeqsUpTo(S, n) == UNION {[1..k -> S] : k \in 0..n}

Schemas == SeqsUpTo(FieldChoices, MaxFields)

\* The stored text of a column in a row of kind r:
\*   1 full width, 2 padded (Character on the right, Numeric on the left),
\*   3 leading space / decimal point, 4 an invalid byte / a non-number,
\*   5 blank.
RowKinds == 1..5

RowText(field_type, r) ==
    IF field_type = TYPE_N
    THEN CASE r = 1 -> <<49, 50>>
           [] r = 2 -> <<SPACE, 55>>
           [] r = 3 -> <<49, DOT>>
           [] r = 4 -> <<88, DOT>>
           [] OTHER -> <<SPACE, SPACE>>
    ELSE CASE r = 1 -> <<72, 73>>
           [] r = 2 -> <<74, SPACE>>
           [] r = 3 -> <<SPACE, 75>>
           [] r = 4 -> <<255, 76>>
           [] OTHER -> <<SPACE, SPACE>>

CellText(d, r) == SubSeq(RowText(d.field_type, r), 1, d.field_len)

\* A row is a deletion flag and a row kind; a deleted row holds the invalid
\* bytes.
Rows ==
    [flag : {SPACE}, kind : RowKinds] \cup [flag : {DELETED_FLAG}, kind : {4}]

RowBytes(ds, row) ==
    <<row.flag>> \o Concat([k \in 1..Len(ds) |-> CellText(ds[k], row.kind)])

TableBytes(ds, rows) ==
    Concat([k \in 1..Len(ds) |-> DescriptorBytes(ds[k])]) \o <<FIELD_TERMINATOR>>
        \o Concat([k \in 1..Len(rows) |-> RowBytes(ds, rows[k])])

\* A file whose header agrees with its field table and its record block.
BuildFile(ds, rows) ==
    HeaderBytes(Len(rows), HEADER_SIZE + DESCRIPTOR_SIZE * Len(ds) + 1, 1 + SumLen(ds))
        \o TableBytes(ds, rows)

\* The same table under a header that declares dn more records, a header
\* longer by dh and records longer by dr.
BuildSkewed(ds, rows, dn, dh, dr) ==
    HeaderBytes(Len(rows) + dn,
                Max(0, HEADER_SIZE + DESCRIPTOR_SIZE * Len(ds) + 1 + dh),
                Max(0, 1 + SumLen(ds) + dr))
        \o TableBytes(ds, rows)

WellFormedFiles ==
    {BuildFile(ds, rows) : ds \in Schemas, rows \in SeqsUpTo(Rows, MaxRecords)}

PlainRows == [flag : {SPACE, DELETED_FLAG}, kind : {1}]

LiveRows == {row \in PlainRows : row.flag = SPACE}

\* Every prefix length at which the reader's behaviour can change.
CutPoints(f) ==
    ({0, 7, 9, 11, 12, 31, 32, 40, 44, 49, 63}
        \cup {Len(f) - k : k \in 1..3}
        \cup {HEADER_SIZE + DESCRIPTOR_SIZE * k + j : k \in 0..MaxFields, j \in 0..2})
    \cap (0..(Len(f) - 1))

TruncatedFiles ==
    UNION {{SubSeq(BuildFile(ds, rows), 1, n) : n \in CutPoints(BuildFile(ds, rows))} :
           ds \in Schemas, rows \in SeqsUpTo(PlainRows, MaxRecords)}

\* The skews <<dn, dh, dr>> of a header: a record count too high by dn, a
\* header length off by dh, a record length off by dr.
Skews ==
    {k \in {0, 1} \X {-33, -1, 0, 1, 32} \X {-1, 0, 1} : k[1] = 0 \/ k[2] = 0}

SkewedFiles ==
    {BuildSkewed(ds, rows, k[1], k[2], k[3]) :
        ds \in Schemas, rows \in SeqsUpTo(LiveRows, MaxRecords), k \in Skews}

\* A field name that is not valid UTF-8, and a file followed by the
\* end-of-file byte 0x1A.
ColBadName == [name |-> <<255>>, field_type |-> TYPE_C, field_len |-> 2]

\* A second field named 'A', of a type that is neither 'C' nor 'N'.
ColAD == [name |-> <<65>>, field_type |-> 68, field_len |-> 1]

OddFiles ==
    {BuildFile(<<ColBadName>>, <<row>>) : row \in LiveRows}
        \cup {BuildFile(<<ColA>>, rows) \o <<26>> : rows \in SeqsUpTo(LiveRows, MaxRecords)}
        \cup {BuildFile(<<ColA, ColAD>>, <<row>>) : row \in LiveRows}
        \cup {BuildFile(<<ColAD, ColA>>, <<row>>) : row \in LiveRows}

\* Headers with other bytes 0..3 and 12..31, and with values of more than
\* one byte: 67305985 = 1 + 256*2 + 65536*3 + 16777216*4, 513, 770.
OtherHeaderBytes(nrec, hlen, rlen) ==
    <<131, 99, 12, 31>> \o LEBytes(nrec, 4) \o LEBytes(hlen, 2) \o LEBytes(rlen, 2)
        \o [k \in 1..20 |-> k]

OtherHeaderFiles ==
    {OtherHeaderBytes(n, HEADER_SIZE + 1, 1) \o <<FIELD_TERMINATOR>> \o [k \in 1..Min(n, 2) |-> SPACE] :
        n \in {0, 1, 2, 67305985}}
    \cup {OtherHeaderBytes(67305985, 513, 1), OtherHeaderBytes(1, 513, 770),
          OtherHeaderBytes(67305985, 513, 1) \o DescriptorBytes(ColA)}

InputFiles ==
    WellFormedFiles \cup TruncatedFiles \cup SkewedFiles \cup OddFiles \cup OtherHeaderFiles

\* The files of two concurrent calls.
ConcFiles ==
    {BuildFile(<<ColA, ColB>>, <<[flag |-> SPACE, kind |-> 1], [flag |-> DELETED_FLAG, kind |-> 2]>>),
     BuildFile(<<ColB>>, <<[flag |-> SPACE, kind |-> 3]>>),
     BuildFile(<<ColD, ColA>>, <<[flag |-> SPACE, kind |-> 2], [flag |-> SPACE, kind |-> 4]>>),
     SubSeq(BuildFile(<<ColA>>, <<[flag |-> SPACE, kind |-> 1], [flag |-> SPACE, kind |-> 1]>>), 1, 68),
     SubSeq(BuildFile(<<ColA>>, <<>>), 1, 40),
     SubSeq(BuildFile(<<>>, <<>>), 1, 9)}

---------------------------------------------------------------------------
(* get_places of api/main.py (lines 81-160) and the tables it queries.     *)
(* Text is a sequence of character codes.                                  *)

COMMA == 44

Text_churches == <<99, 104, 117, 114, 99, 104, 101, 115>>

Text_schools == <<115, 99, 104, 111, 111, 108, 115>>

Text_townhalls == <<116, 111, 119, 110, 104, 97, 108, 108, 115>>

Text_meta == <<109, 101, 116, 97>>

Text_query_time_ms == <<113, 117, 101, 114, 121, 95, 116, 105, 109, 101, 95, 109, 115>>

Text_bounds == <<98, 111, 117, 110, 100, 115>>

Text_nan == <<110, 97, 110>>

Text_inf == <<105, 110, 102>>

Text_infinity == <<105, 110, 102, 105, 110, 105, 116, 121>>

\* str.split(","): the pieces between the commas; one piece when there is none.
RECURSIVE Split(_)
Split(s) ==
    IF \E k \in 1..Len(s) : s[k] = COMMA
    THEN LET c == CHOOSE k \in 1..Len(s) : s[k] = COMMA /\ \A j \in 1..(k - 1) : s[j] # COMMA
         IN  <<SubSeq(s, 1, c - 1)>> \o Split(SubSeq(s, c + 1, Len(s)))
    ELSE <<s>>

Lower(s) == [k \in 1..Len(s) |-> IF s[k] \in 65..90 THEN s[k] + 32 ELSE s[k]]

\* A float: a decimal num / 10^scale, a NaN or an infinity of sign num.
Num(n) == [kind |-> "num", num |-> n, scale |-> 0]

Decimal(m, s) == [kind |-> "num", num |-> m, scale |-> s]

NaN == [kind |-> "nan", num |-> 0, scale |-> 0]

Inf(sign) == [kind |-> "inf", num |-> sign, scale |-> 0]

RECURSIVE Pow10(_)
Pow10(n) == IF n = 0 THEN 1 ELSE 10 * Pow10(n - 1)

\* a <= b on floats: false when either is a NaN.
Le(a, b) ==
    IF a.kind = "nan" \/ b.kind = "nan" THEN FALSE
    ELSE IF a.kind = "inf" THEN a.num < 0 \/ (b.kind = "inf" /\ b.num > 0)
    ELSE IF b.kind = "inf" THEN b.num > 0
    ELSE a.num * Pow10(b.scale) <= b.num * Pow10(a.scale)

\* float(text): surrounding whitespace is ignored; a sign, then digits with
\* at most one point, or nan, inf, infinity in any case.
FloatTextParses(t) ==
    LET v == Lower(Strip(t, StrWhitespace))
    IN  \/ Unsigned(v) \in {Text_nan, Text_inf, Text_infinity}
        \/ IF HasDot(v) THEN FloatParses(v) ELSE IntParses(v)

FloatOfText(t) ==
    LET v == Lower(Strip(t, StrWhitespace))
    IN  IF Unsigned(v) = Text_nan THEN NaN
        ELSE IF Unsigned(v) \in {Text_inf, Text_infinity} THEN Inf(SignOf(v))
        ELSE IF HasDot(v) THEN Decimal(FloatOf(v).num, FloatOf(v).scale)
        ELSE Num(IntOf(v))

\* Lines 98-107: the bounds that pass, as min_lat, min_lng, max_lat, max_lng.
BoundsList(bounds) == [k \in 1..Len(Split(bounds)) |-> FloatOfText(Split(bounds)[k])]

\* Variant of BoundsAccepted without the longitude test of lines 106-107.
BoundsAcceptedLatOnly(bounds) ==
    /\ \A k \in 1..Len(Split(bounds)) : FloatTextParses(Split(bounds)[k])
    /\ Len(BoundsList(bounds)) = 4
    /\ LET b == BoundsList(bounds)
       IN  Le(Num(-90), b[1]) /\ Le(b[1], b[3]) /\ Le(b[3], Num(90))

BoundsAccepted(bounds) ==
    /\ \A k \in 1..Len(Split(bounds)) : FloatTextParses(Split(bounds)[k])
    /\ Len(BoundsList(bounds)) = 4
    /\ LET b == BoundsList(bounds)
       IN  /\ Le(Num(-90), b[1]) /\ Le(b[1], b[3]) /\ Le(b[3], Num(90))
           /\ Le(Num(-180), b[2]) /\ Le(b[2], b[4]) /\ Le(b[4], Num(180))

\* Line 115.
DatasetNames(dataset) ==
    [k \in 1..Len(Split(dataset)) |-> Strip(Split(dataset)[k], StrWhitespace)]

\* Variant of InBounds with the bounds excluded.
InBoundsExclusive(row, b) ==
    /\ ~Le(Num(row.lat), b[1]) /\ ~Le(b[3], Num(row.lat))
    /\ ~Le(Num(row.lng), b[2]) /\ ~Le(b[4], Num(row.lng))

\* Lines 132-135: Series.between is inclusive at both ends.
InBounds(row, b) ==
    /\ Le(b[1], Num(row.lat)) /\ Le(Num(row.lat), b[3])
    /\ Le(b[2], Num(row.lng)) /\ Le(Num(row.lng), b[4])

RECURSIVE Filter(_, _)
Filter(rows, b) ==
    IF rows = <<>> THEN <<>>
    ELSE IF InBounds(Head(rows), b) THEN <<Head(rows)>> \o Filter(Tail(rows), b)
    ELSE Filter(Tail(rows), b)

\* The first row of the highest confidence.
TopIndex(rows) ==
    CHOOSE k \in 1..Len(rows) :
        /\ \A j \in 1..Len(rows) : rows[j].confidence <= rows[k].confidence
        /\ \A j \in 1..(k - 1) : rows[j].confidence < rows[k].confidence

Without(rows, k) == SubSeq(rows, 1, k - 1) \o SubSeq(rows, k + 1, Len(rows))

\* Variant of NLargest that keeps the first n rows.
FirstN(rows, n) == SubSeq(rows, 1, Min(Max(n, 0), Len(rows)))

\* Line 141: DataFrame.nlargest(n, 'confidence'): the n rows of the highest
\* confidence, highest first, ties in table order; no row when n <= 0.
RECURSIVE NLargest(_, _)
NLargest(rows, n) ==
    IF n <= 0 \/ rows = <<>> THEN <<>>
    ELSE <<rows[TopIndex(rows)]>> \o NLargest(Without(rows, TopIndex(rows)), n - 1)

\* Lines 138-141.
Limited(rows, limit) == IF Len(rows) > limit THEN NLargest(rows, limit) ELSE rows

\* Values of the result: the meta dictionary or a list of places; values of
\* meta: a count, a time, the bounds list.
DictVal(d) == [kind |-> "dict", dict |-> d, list |-> <<>>]

ListVal(l) == [kind |-> "list", dict |-> EmptyDict, list |-> l]

CountVal(n) == [kind |-> "int", n |-> n, list |-> <<>>]

TimeVal(t) == [kind |-> "float", n |-> t, list |-> <<>>]

BoundsVal(b) == [kind |-> "list", n |-> 0, list |-> b]

\* d[key] = value on a dictionary.
SetItem(d, key, value) == (key :> value) @@ d

\* The module-level places_api.data_cache before load_data, and after it
\* with the churches table given (lines 38-46).
NoData == EmptyDict

LoadedData(churches) ==
    (Text_churches :> churches) @@ (Text_schools :> <<>>) @@ (Text_townhalls :> <<>>)

\* The state of one request to get_places.
GpIdle ==
    [pc |-> "idle", bounds |-> <<>>, dataset |-> <<>>, limit |-> 0,
     bounds_list |-> <<>>, datasets |-> <<>>, k |-> 0, result |-> EmptyDict,
     status |-> 0, touched |-> {}]

GpRequest(bounds, dataset, limit) ==
    [GpIdle EXCEPT !.pc = "call", !.bounds = bounds, !.dataset = dataset, !.limit = limit]

\* Lines 96-116: the bounds are parsed and tested; HTTP 400 on any failure.
DoValidate(g) ==
    IF ~BoundsAccepted(g.bounds) THEN [g EXCEPT !.pc = "done", !.status = 400]
    ELSE [g EXCEPT !.pc = "loop",
                   !.bounds_list = BoundsList(g.bounds),
                   !.datasets = DatasetNames(g.dataset),
                   !.result = SetItem(EmptyDict, Text_meta, DictVal(EmptyDict)),
                   !.k = 1]

\* result["meta"][name] = value; a TypeError when result["meta"] is a list.
MetaIsDict(result) == result[Text_meta].kind = "dict"

SetMeta(result, name, value) ==
    SetItem(result, Text_meta, DictVal(SetItem(result[Text_meta].dict, name, value)))

\* An unhandled exception: HTTP 500.
Fail(g) == [g EXCEPT !.pc = "done", !.status = 500]

\* Lines 118-151: one dataset of the request.
DoDataset(cache, g) ==
    LET dataset_name == g.datasets[g.k]
        seen == [g EXCEPT !.touched = g.touched \cup {dataset_name}, !.k = g.k + 1]
        gdf == cache[dataset_name]
        filtered_gdf == Filter(gdf, g.bounds_list)
    IN  IF ~MetaIsDict(g.result) THEN Fail(seen)
        ELSE IF dataset_name \notin DOMAIN cache \/ gdf = <<>>
        THEN [seen EXCEPT !.result =
                 SetItem(SetMeta(g.result, dataset_name, CountVal(0)),
                         dataset_name, ListVal(<<>>))]
        ELSE [seen EXCEPT !.result =
                 SetItem(SetMeta(g.result, dataset_name, CountVal(Len(filtered_gdf))),
                         dataset_name, ListVal(Limited(filtered_gdf, g.limit)))]

\* Lines 153-160, with the time the query took.
DoFinish(g, t) ==
    IF ~MetaIsDict(g.result) THEN Fail(g)
    ELSE [g EXCEPT !.pc = "done", !.status = 200,
                   !.result = SetMeta(SetMeta(g.result, Text_query_time_ms, TimeVal(t)),
                                      Text_bounds, BoundsVal(g.bounds_list))]

QueryTimes == {0, 3}

GpValidate ==
    /\ gp.pc = "call"
    /\ gp' = DoValidate(gp)
    /\ UNCHANGED <<file, st, data_cache, others>>

GpDataset ==
    /\ gp.pc = "loop"
    /\ gp.k <= Len(gp.datasets)
    /\ gp' = DoDataset(data_cache, gp)
    /\ UNCHANGED <<file, st, data_cache, others>>

GpFinish ==
    /\ gp.pc = "loop"
    /\ gp.k > Len(gp.datasets)
    /\ \E t \in QueryTimes : gp' = DoFinish(gp, t)
    /\ UNCHANGED <<file, st, data_cache, others>>

NextPlaces == GpValidate \/ GpDataset \/ GpFinish

---------------------------------------------------------------------------
(* Specifications.                                                         *)

\* One call, on any input file.
Init ==
    /\ \E f \in InputFiles : file = [p \in Procs |-> IF p = 1 THEN f ELSE <<>>]
    /\ st = [p \in Procs |-> IF p = 1 THEN Called ELSE NotCalled]
    /\ data_cache = NoData
    /\ gp = GpIdle
    /\ OthersIdle

Spec == Init /\ [][Next]_vars

\* Two calls at once, each on its own file.
InitConc ==
    /\ file \in [Procs -> ConcFiles]
    /\ st = [p \in Procs |-> Called]
    /\ data_cache = NoData
    /\ gp = GpIdle
    /\ OthersIdle

SpecConc == InitConc /\ [][Next]_vars

---------------------------------------------------------------------------
(* Requests to get_places.                                                 *)

MaxRows == 3

MaxLimit == 2

DEFAULT_LIMIT == 100000

RECURSIVE Join(_)
Join(pieces) ==
    IF Len(pieces) = 0 THEN <<>>
    ELSE IF Len(pieces) = 1 THEN pieces[1]
    ELSE pieces[1] \o <<COMMA>> \o Join(Tail(pieces))

\* "-90", "-180", "90", "180", "0", "10", and pieces that fail somewhere:
\* "91", "-91", "181", "-181", "", "x", "nan", "NaN", "inf", "-inf",
\* and ones that parse: " 5 ", "5.5", "+5", "90.0", "-0".
BoundsPieces ==
    {<<45, 57, 48>>, <<45, 49, 56, 48>>, <<57, 48>>, <<49, 56, 48>>, <<48>>, <<49, 48>>,
     <<57, 49>>, <<45, 57, 49>>, <<49, 56, 49>>, <<45, 49, 56, 49>>, <<>>, <<120>>,
     <<110, 97, 110>>, <<78, 97, 78>>, <<105, 110, 102>>, <<45, 105, 110, 102>>,
     <<32, 53, 32>>, <<53, 46, 53>>, <<43, 53>>, <<57, 48, 46, 48>>, <<45, 48>>}

\* The default "-90,-180,90,180" and the box "0,0,10,10".
WorldPieces == <<<<45, 57, 48>>, <<45, 49, 56, 48>>, <<57, 48>>, <<49, 56, 48>>>>

BoxPieces == <<<<48>>, <<48>>, <<49, 48>>, <<49, 48>>>>

WorldBounds == Join(WorldPieces)

BoxBounds == Join(BoxPieces)

\* A base with one piece replaced, and bounds of three and of five pieces.
BoundsTexts ==
    {Join([base EXCEPT ![k] = piece]) :
        base \in {WorldPieces, BoxPieces}, k \in 1..4, piece \in BoundsPieces}
    \cup {<<>>, Join(SubSeq(BoxPieces, 1, 3)), Join(BoxPieces \o <<<<49, 48>>>>)}

\* Rows of a table: on the box's edge, inside it twice, and outside it by
\* latitude and by longitude with the highest confidence.
PlaceChoices ==
    {[lat |-> 0, lng |-> 10, confidence |-> 2],
     [lat |-> 5, lng |-> 5, confidence |-> 3],
     [lat |-> 5, lng |-> 5, confidence |-> 2],
     [lat |-> 11, lng |-> 5, confidence |-> 9],
     [lat |-> 5, lng |-> -1, confidence |-> 9]}

WithIds(rows) ==
    [k \in 1..Len(rows) |->
        [id |-> k, lat |-> rows[k].lat, lng |-> rows[k].lng, confidence |-> rows[k].confidence]]

Tables == {WithIds(rows) : rows \in SeqsUpTo(PlaceChoices, MaxRows)}

SmallTable ==
    WithIds(<<[lat |-> 0, lng |-> 10, confidence |-> 2],
              [lat |-> 5, lng |-> 5, confidence |-> 3],
              [lat |-> 11, lng |-> 5, confidence |-> 9]>>)

Limits == (-1..MaxLimit) \cup {DEFAULT_LIMIT}

\* "churches", " churches ,schools", "churches,nowhere".
DatasetTexts ==
    {Text_churches,
     <<32>> \o Text_churches \o <<32, COMMA>> \o Text_schools,
     Text_churches \o <<COMMA, 110, 111, 119, 104, 101, 114, 101>>}

\* "", "meta", "churches,meta", "meta,churches", "churches,churches",
\* "townhalls", "query_time_ms".
OddDatasetTexts ==
    {<<>>, Text_meta, Text_churches \o <<COMMA>> \o Text_meta,
     Text_meta \o <<COMMA>> \o Text_churches,
     Text_churches \o <<COMMA>> \o Text_churches, Text_townhalls, Text_query_time_ms}

Requests ==
    [bounds : BoundsTexts, dataset : {Text_churches}, limit : {1}, table : {SmallTable}]
    \cup [bounds : {WorldBounds, BoxBounds}, dataset : DatasetTexts, limit : Limits,
          table : Tables]
    \cup [bounds : {WorldBounds}, dataset : OddDatasetTexts, limit : {1},
          table : {SmallTable}]

InitPlaces ==
    /\ file = [p \in Procs |-> <<>>]
    /\ st = [p \in Procs |-> NotCalled]
    /\ \E req \in Requests :
          /\ data_cache = LoadedData(req.table)
          /\ gp = GpRequest(req.bounds, req.dataset, req.limit)
    /\ OthersIdle

SpecPlaces == InitPlaces /\ [][NextPlaces]_vars

---------------------------------------------------------------------------
(* What a file holds, read off its bytes without running the reader.       *)

DeclaredNumRecords(f) == f[5] + 256 * f[6] + 65536 * f[7] + 16777216 * f[8]

DeclaredHeaderLen(f) == f[9] + 256 * f[10]

DeclaredRecordLen(f) == f[11] + 256 * f[12]

DeclaredFieldCount(f) == (DeclaredHeaderLen(f) - (HEADER_SIZE + 1)) \div DESCRIPTOR_SIZE

DescriptorAt(f, k) ==
    Slice(f, HEADER_SIZE + DESCRIPTOR_SIZE * (k - 1), HEADER_SIZE + DESCRIPTOR_SIZE * k)

DeclaredFields(f) == [k \in 1..DeclaredFieldCount(f) |-> FieldTuple(DescriptorAt(f, k))]

\* The bytes of on-disk record i (0-based) under header length h and record
\* length r: those of them the file holds.
BytesOfRecord(f, h, r, i) == Slice(f, h + i * r, h + (i + 1) * r)

RecordAt(f, i) == BytesOfRecord(f, DeclaredHeaderLen(f), DeclaredRecordLen(f), i)

\* The header describes the layout: the field table ends with 0x0D at
\* header_len - 1, record_len is 1 + the field widths, and the record block
\* holds num_records whole records, optionally followed by the byte 0x1A.
WellFormed(f) ==
    /\ Len(f) >= HEADER_SIZE
    /\ DeclaredHeaderLen(f) >= HEADER_SIZE + 1
    /\ (DeclaredHeaderLen(f) - (HEADER_SIZE + 1)) % DESCRIPTOR_SIZE = 0
    /\ Len(f) >= DeclaredHeaderLen(f)
    /\ f[DeclaredHeaderLen(f)] = FIELD_TERMINATOR
    /\ \A k \in 1..DeclaredFieldCount(f) :
          /\ DescriptorAt(f, k)[1] # FIELD_TERMINATOR
          /\ Utf8Valid(name_of(DescriptorAt(f, k)))
    /\ DeclaredRecordLen(f) = 1 + SumLen(DeclaredFields(f))
    /\ LET size == DeclaredHeaderLen(f) + DeclaredNumRecords(f) * DeclaredRecordLen(f)
       IN  \/ Len(f) = size
           \/ Len(f) = size + 1 /\ f[Len(f)] = 26
    /\ \A i \in 0..(DeclaredNumRecords(f) - 1) : RecordAt(f, i)[1] \in {SPACE, DELETED_FLAG}

\* The 0-based positions, in file order, of the records among the first n
\* that are present and not marked deleted.
RECURSIVE LiveIndices(_, _, _, _)
LiveIndices(f, h, r, n) ==
    IF n = 0 THEN <<>>
    ELSE LET before == LiveIndices(f, h, r, n - 1)
             rec == BytesOfRecord(f, h, r, n - 1)
         IN  IF rec # <<>> /\ rec[1] # DELETED_FLAG THEN Append(before, n - 1) ELSE before

DeletedCount(f) ==
    Cardinality({i \in 0..(DeclaredNumRecords(f) - 1) : RecordAt(f, i)[1] = DELETED_FLAG})

LiveOf(f) ==
    LiveIndices(f, DeclaredHeaderLen(f), DeclaredRecordLen(f), DeclaredNumRecords(f))

---------------------------------------------------------------------------
(* Claims.                                                                 *)

\* C1: on a well-formed file with N records not marked deleted and M marked
\* deleted, the call returns exactly N records, the k-th of them decoded from
\* the k-th on-disk record that is not marked deleted.
C1_LiveRecordsInFileOrder ==
    \A p \in Procs :
        (Finished(st[p]) /\ WellFormed(file[p])) =>
            /\ st[p].pc = "returned"
            /\ Len(st[p].records) = DeclaredNumRecords(file[p]) - DeletedCount(file[p])
            /\ st[p].records =
                  [k \in 1..Len(LiveOf(file[p])) |->
                      DecodeRecord(RecordAt(file[p], LiveOf(file[p])[k]),
                                   DeclaredFields(file[p]))]

\* C1 witness: a well-formed file of two records, the first marked deleted,
\* returned as the one record decoded from the second.
C1_Witness ==
    \E p \in Procs :
        /\ st[p].pc = "returned"
        /\ WellFormed(file[p])
        /\ DeclaredNumRecords(file[p]) = 2
        /\ LiveOf(file[p]) = <<1>>
        /\ Len(st[p].records) = 1
        /\ DOMAIN st[p].records[1] # {}

\* C2: reading a record whose first byte is 0x2A adds nothing to the output
\* and raises nothing, whatever the other bytes of the record are; and the
\* output only grows by a record whose first byte is not 0x2A.
C2_DeletedNeverEmitted ==
    [][\A p \in Procs :
          LET record == FileRead(file[p], st[p].pos, st[p].record_len) IN
          /\ (AtReadRecord(st[p]) /\ record # <<>> /\ record[1] = DELETED_FLAG) =>
                (st'[p].records = st[p].records /\ st'[p].pc # "raised")
          /\ (st'[p].records # st[p].records) =>
                (AtReadRecord(st[p]) /\ record # <<>> /\ record[1] # DELETED_FLAG
                   /\ Len(st'[p].records) = Len(st[p].records) + 1)]_vars

\* C2 witness: the first record, marked deleted and holding a byte that is
\* not valid text, has been read and the output is still empty.
C2_Witness ==
    \E p \in Procs :
        /\ st[p].pc = "records"
        /\ st[p].i = 1
        /\ st[p].records = <<>>
        /\ st[p].fields # <<>>
        /\ LET record == BytesOfRecord(file[p], st[p].header_len, st[p].record_len, 0)
           IN  /\ Len(record) = st[p].record_len
               /\ record[1] = DELETED_FLAG
               /\ \E k \in 2..Len(record) : record[k] = 255

\* A file that holds fewer bytes after header_len than num_records records.
Truncated(f) ==
    /\ Len(f) >= HEADER_SIZE
    /\ Max(0, Len(f) - DeclaredHeaderLen(f)) < DeclaredNumRecords(f) * DeclaredRecordLen(f)

\* C3 (as claimed): on a truncated file the call never returns a record
\* sequence.
C3_TruncatedNeverReturns ==
    \A p \in Procs : (Finished(st[p]) /\ Truncated(file[p])) => st[p].pc = "raised"

\* C4 (as claimed): on a file of fewer than 32 bytes the call fails; it never
\* returns a record sequence.
C4_ShortHeaderFails ==
    \A p \in Procs :
        (Finished(st[p]) /\ Len(file[p]) < HEADER_SIZE) => st[p].pc = "raised"

---------------------------------------------------------------------------
(* The records a call has emitted, traced back to the bytes of the file.   *)

\* Where field k lies in a record: after the flag byte and the earlier fields.
FieldOffset(fields, k) == 1 + SumLen(SubSeq(fields, 1, k - 1))

RawField(record, fields, k) ==
    Slice(record, FieldOffset(fields, k), FieldOffset(fields, k) + fields[k].field_len)

Stored(fld) == fld.field_type \in {TYPE_C, TYPE_N}

\* No later field is stored under the name of field k.
LastNamed(fields, k) ==
    \A m \in (k + 1)..Len(fields) : Stored(fields[m]) => fields[m].name # fields[k].name

OnlyNamed(fields, k) ==
    \A m \in 1..Len(fields) : m # k => fields[m].name # fields[k].name

\* The field's bytes are the text of a number.
IsNumberText(raw) ==
    LET v == Strip(raw, BytesWhitespace)
    IN  IF HasDot(v) THEN FloatParses(v) ELSE IntParses(v)

\* The on-disk positions of the records emitted so far by call p.
EmittedFrom(p) ==
    LiveIndices(file[p], st[p].header_len, st[p].record_len, st[p].i)

EmittedBytes(p, j) ==
    BytesOfRecord(file[p], st[p].header_len, st[p].record_len, EmittedFrom(p)[j])

\* C5: a Numeric field whose bytes are not a number is stored as the integer
\* 0; its record is emitted all the same (every record read so far that is
\* not marked deleted has its entry, and an error in the record loop comes
\* only from a record that is absent); and every other field of every
\* emitted record holds the value of its own bytes.
C5_BadNumberIsZero ==
    \A p \in Procs :
        /\ Len(st[p].records) = Len(EmittedFrom(p))
        /\ (st[p].pc = "raised" /\ st[p].i >= 1) =>
              BytesOfRecord(file[p], st[p].header_len, st[p].record_len, st[p].i - 1) = <<>>
        /\ \A j \in 1..Len(st[p].records) : \A k \in 1..Len(st[p].fields) :
              LET fld == st[p].fields[k]
                  raw == RawField(EmittedBytes(p, j), st[p].fields, k)
                  d == st[p].records[j]
              IN  (LastNamed(st[p].fields, k) /\ Stored(fld)) =>
                    /\ fld.name \in DOMAIN d
                    /\ (fld.field_type = TYPE_N /\ ~IsNumberText(raw)) =>
                          d[fld.name] = IntVal(0)
                    /\ (fld.field_type = TYPE_N /\ IsNumberText(raw)) =>
                          d[fld.name] = NumericValue(Strip(raw, BytesWhitespace))
                    /\ (fld.field_type = TYPE_C) =>
                          d[fld.name] = CharacterValue(Strip(raw, BytesWhitespace))

\* C5 witness: two records returned; in one a Numeric field holds non-digit
\* bytes and is stored as 0 beside a Character field that kept its text.
C5_Witness ==
    \E p \in Procs :
        /\ st[p].pc = "returned"
        /\ Len(st[p].records) = 2
        /\ \E j \in 1..2 : \E k, c \in 1..Len(st[p].fields) :
              LET raw == RawField(EmittedBytes(p, j), st[p].fields, k)
                  d == st[p].records[j]
              IN  /\ st[p].fields[k].field_type = TYPE_N
                  /\ st[p].fields[c].field_type = TYPE_C
                  /\ \E x \in 1..Len(raw) : raw[x] \notin BytesWhitespace /\ ~IsDigit(raw[x])
                  /\ ~IsNumberText(raw)
                  /\ d[st[p].fields[k].name] = IntVal(0)
                  /\ d[st[p].fields[c].name].text # <<>>

\* C6 (as claimed): every record returned from a well-formed file maps the
\* name of a field whose type is neither 'C' nor 'N' to a text value.
C6_OtherTypePassedThrough ==
    \A p \in Procs :
        \A j \in 1..Len(st[p].records) : \A k \in 1..Len(st[p].fields) :
            (st[p].pc = "returned" /\ WellFormed(file[p]) /\ ~Stored(st[p].fields[k])) =>
                /\ st[p].fields[k].name \in DOMAIN st[p].records[j]
                /\ st[p].records[j][st[p].fields[k].name].kind = "str"

\* C7 (as claimed): on a well-formed file, a Character field holding text
\* padded with spaces decodes to that text without the padding, and a Numeric
\* field holding the text of a number decodes to that number, a float when
\* the text has a '.' and an integer when it has none.
C7_RoundTrip ==
    \A p \in Procs :
        (st[p].pc = "returned" /\ WellFormed(file[p])) =>
            \A j \in 1..Len(st[p].records) : \A k \in 1..Len(st[p].fields) :
                LET fld == st[p].fields[k]
                    raw == RawField(EmittedBytes(p, j), st[p].fields, k)
                    v == Strip(raw, BytesWhitespace)
                    d == st[p].records[j]
                IN  (LastNamed(st[p].fields, k) /\ Stored(fld)) =>
                      /\ fld.name \in DOMAIN d
                      /\ (fld.field_type = TYPE_C /\ Utf8Valid(raw)) =>
                            d[fld.name] = StrVal(RStrip(raw, {SPACE}))
                      /\ (fld.field_type = TYPE_N /\ IsNumberText(raw)) =>
                            d[fld.name] = IF HasDot(raw) THEN FloatOf(v) ELSE IntVal(IntOf(v))

\* C8 (as claimed): a field whose descriptor declares length 0 has no value
\* in any record the call returns.
C8_ZeroLengthNeverEmitted ==
    \A p \in Procs :
        \A j \in 1..Len(st[p].records) : \A k \in 1..Len(st[p].fields) :
            (st[p].pc = "returned" /\ WellFormed(file[p])
                /\ st[p].fields[k].field_len = 0 /\ OnlyNamed(st[p].fields, k)) =>
                st[p].fields[k].name \notin DOMAIN st[p].records[j]

\* C9: when a call has ended, by a return or by an error, its file is closed.
C9_ClosedWhenCallEnds ==
    \A p \in Procs : Finished(st[p]) => st[p].closed

\* C9 witness: a call that raised in the record loop, after emitting a
\* record, with its file closed.
C9_Witness ==
    \E p \in Procs :
        /\ st[p].pc = "raised"
        /\ st[p].error = "IndexError"
        /\ st[p].records # <<>>
        /\ st[p].closed

\* C10: a call that ran interleaved with another call on another file ends
\* in the state it ends in when run alone on its file.
C10_ConcurrentAsAlone ==
    \A p \in Procs : Finished(st[p]) => st[p] = read_dbf(file[p])

\* C10 witness: two calls on different files have both returned, each with
\* its own records.
C10_Witness ==
    /\ file[1] # file[2]
    /\ \A p \in Procs : st[p].pc = "returned" /\ st[p].records # <<>>
    /\ st[1].records # st[2].records

---------------------------------------------------------------------------
(* The places endpoint.                                                    *)

\* What the request's bounds text says, piece by piece.
FourNumbers(bounds) ==
    /\ Len(Split(bounds)) = 4
    /\ \A k \in 1..4 : FloatTextParses(Split(bounds)[k])

InRange(lo, a, b, hi) == Le(Num(lo), a) /\ Le(a, b) /\ Le(b, Num(hi))

GoodBounds(bounds) ==
    /\ FourNumbers(bounds)
    /\ InRange(-90, FloatOfText(Split(bounds)[1]), FloatOfText(Split(bounds)[3]), 90)
    /\ InRange(-180, FloatOfText(Split(bounds)[2]), FloatOfText(Split(bounds)[4]), 180)

\* C11: get_places answers HTTP 400, before it looks at any dataset, exactly
\* when the bounds text is not four numbers or breaks
\* -90 <= minLat <= maxLat <= 90 or -180 <= minLng <= maxLng <= 180; every
\* other bounds text is accepted.
C11_BadBoundsRejectedFirst ==
    gp.pc \notin {"idle", "call"} =>
        IF GoodBounds(gp.bounds)
        THEN gp.status # 400
        ELSE gp.status = 400 /\ gp.pc = "done" /\ gp.touched = {} /\ gp.result = EmptyDict

\* A request of four numbers refused for their order or range.
C11_Witness == gp.status = 400 /\ FourNumbers(gp.bounds) /\ gp.touched = {}

\* The rows of a loaded table inside the request's inclusive box.
InBox(row) ==
    /\ Le(gp.bounds_list[1], Num(row.lat)) /\ Le(Num(row.lat), gp.bounds_list[3])
    /\ Le(gp.bounds_list[2], Num(row.lng)) /\ Le(Num(row.lng), gp.bounds_list[4])

RowsInBox(name) == {data_cache[name][k] : k \in {j \in 1..Len(data_cache[name]) : InBox(data_cache[name][j])}}

Returned(name) == {gp.result[name].list[k] : k \in 1..Len(gp.result[name].list)}

Answered == gp.pc = "done" /\ gp.status = 200

LoadedNonEmpty(name) == name \in DOMAIN data_cache /\ data_cache[name] # <<>>

Requested == {gp.datasets[k] : k \in 1..Len(gp.datasets)}

\* The places of one dataset are count rows of the box, each once, and none
\* left out outranks one returned when the box holds more than the limit.
PlacesAre(name, count) ==
    /\ Len(gp.result[name].list) = count
    /\ Cardinality(Returned(name)) = count
    /\ Returned(name) \subseteq RowsInBox(name)
    /\ Cardinality(RowsInBox(name)) > gp.limit =>
          \A x \in RowsInBox(name) \ Returned(name) :
              \A y \in Returned(name) : x.confidence <= y.confidence

\* C12 as stated: for each requested dataset that is loaded and non-empty,
\* get_places returns exactly min(limit, T) places, T the number of rows in
\* the inclusive box, all of them in the box, none outranked by an omitted
\* row of the box when T > limit.
C12_Original ==
    Answered =>
        \A name \in Requested :
            LoadedNonEmpty(name) =>
                PlacesAre(name, Min(gp.limit, Cardinality(RowsInBox(name))))

\* C12, amended: the number of places is min(max(limit, 0), T): a negative
\* limit returns no place.
C12_LimitedPlaces ==
    Answered =>
        \A name \in Requested :
            LoadedNonEmpty(name) =>
                PlacesAre(name, Min(Max(gp.limit, 0), Cardinality(RowsInBox(name))))

\* A table cut to the limit, with a row of the box left out.
C12_Witness ==
    /\ Answered
    /\ gp.limit >= 1
    /\ LoadedNonEmpty(Text_churches)
    /\ Text_churches \in Requested
    /\ Len(gp.result[Text_churches].list) = gp.limit
    /\ RowsInBox(Text_churches) \ Returned(Text_churches) # {}
    /\ Len(data_cache[Text_churches]) > Cardinality(RowsInBox(Text_churches))

---------------------------------------------------------------------------
(* The descriptor table and the record layout.                             *)

\* Entry k (1-based) of the descriptor table: the 32 bytes from offset
\* 32 + 32 * (k - 1), as far as the file holds them.
EntryAt(f, k) ==
    Slice(f, HEADER_SIZE + DESCRIPTOR_SIZE * (k - 1), HEADER_SIZE + DESCRIPTOR_SIZE * k)

\* Parsing stops before entry k: its first byte is 0x0D, or its offset is not
\* below header_length - 1.
StopsBefore(f, k) ==
    \/ HEADER_SIZE + DESCRIPTOR_SIZE * (k - 1) >= DeclaredHeaderLen(f) - 1
    \/ (EntryAt(f, k) # <<>> /\ EntryAt(f, k)[1] = FIELD_TERMINATOR)

EntriesRead(f) ==
    CHOOSE n \in 0..Len(f) : StopsBefore(f, n + 1) /\ \A k \in 1..n : ~StopsBefore(f, k)

\* The call is past the descriptor loop.
PastFields(s) ==
    \/ s.pc \in {"seek", "records", "returned"}
    \/ (s.pc = "fields" /\ ~FieldLoopContinues(s))
    \/ (s.pc = "raised" /\ s.i > 0)

\* C13: descriptor parsing reads the 32-byte entries from offset 32 on and
\* stops at the first entry that starts with 0x0D or whose offset is not
\* below header_length - 1; the field list is exactly the entries before
\* that point, in file order.
C13_FieldsAreEntriesRead ==
    \A p \in Procs :
        PastFields(st[p]) =>
            /\ Len(st[p].fields) = EntriesRead(file[p])
            /\ \A k \in 1..Len(st[p].fields) :
                  st[p].fields[k] = FieldTuple(EntryAt(file[p], k))

\* A field list ended by the 0x0D entry, short of header_length - 1.
C13_Witness ==
    \E p \in Procs :
        /\ st[p].pc = "returned"
        /\ Len(st[p].fields) >= 1
        /\ HEADER_SIZE + DESCRIPTOR_SIZE * Len(st[p].fields) < st[p].header_len - 1
        /\ EntryAt(file[p], Len(st[p].fields) + 1)[1] = FIELD_TERMINATOR

\* The call is in or past the record loop.
InRecords(s) == s.pc \in {"records", "returned"} \/ (s.pc = "raised" /\ s.i > 0)

\* C14: record i (0-based) is decoded from the bytes at header_length +
\* i * record_length up to header_length + (i + 1) * record_length, wherever
\* descriptor parsing stopped and whether or not record_length is 1 plus the
\* field lengths.
C14_RecordsAtDeclaredOffsets ==
    \A p \in Procs :
        InRecords(st[p]) =>
            LET h == DeclaredHeaderLen(file[p])
                r == DeclaredRecordLen(file[p])
                live == LiveIndices(file[p], h, r, st[p].i)
            IN  /\ Len(st[p].records) = Len(live)
                /\ \A j \in 1..Len(live) :
                      st[p].records[j] =
                          DecodeRecord(BytesOfRecord(file[p], h, r, live[j]), st[p].fields)
                /\ (st[p].pc = "records" /\ st[p].i < st[p].num_records) =>
                      FileRead(file[p], st[p].pos, st[p].record_len) =
                          BytesOfRecord(file[p], h, r, st[p].i)

\* Two records returned from a file whose record length is not 1 plus the
\* lengths of the fields parsed.
C14_Witness ==
    \E p \in Procs :
        /\ st[p].pc = "returned"
        /\ Len(st[p].records) = 2
        /\ st[p].fields # <<>>
        /\ st[p].record_len # 1 + SumLen(st[p].fields)

\* The value a stored field takes from the bytes of its range.
ValueOfBytes(fld, raw) ==
    IF fld.field_type = TYPE_C
    THEN CharacterValue(Strip(raw, BytesWhitespace))
    ELSE NumericValue(Strip(raw, BytesWhitespace))

\* C15: in a live record the k-th field is decoded from the bytes that start
\* at 1 plus the declared lengths of all earlier fields and span its own
\* declared length: earlier fields of an unrecognised type and earlier fields
\* that failed to parse count with their declared length like any other.
C15_FieldAtSumOfLengths ==
    \A p \in Procs :
        InRecords(st[p]) =>
            \A j \in 1..Len(st[p].records) : \A k \in 1..Len(st[p].fields) :
                (Stored(st[p].fields[k]) /\ LastNamed(st[p].fields, k)) =>
                    /\ st[p].fields[k].name \in DOMAIN st[p].records[j]
                    /\ st[p].records[j][st[p].fields[k].name] =
                          ValueOfBytes(st[p].fields[k],
                              Slice(EmittedBytes(p, j),
                                    1 + SumLen(SubSeq(st[p].fields, 1, k - 1)),
                                    1 + SumLen(SubSeq(st[p].fields, 1, k))))

\* A returned record whose second field holds its text, after a first field
\* of an unrecognised type; and one after a Numeric field that did not parse.
C15_Witness ==
    \E p \in Procs :
        /\ st[p].pc = "returned"
        /\ Len(st[p].fields) = 2
        /\ st[p].fields[1].field_len > 0
        /\ Stored(st[p].fields[2])
        /\ \/ ~Stored(st[p].fields[1])
           \/ /\ st[p].fields[1].field_type = TYPE_N
              /\ \E j \in 1..Len(st[p].records) :
                    ~IsNumberText(RawField(EmittedBytes(p, j), st[p].fields, 1))
        /\ \E j \in 1..Len(st[p].records) :
              /\ st[p].records[j][st[p].fields[2].name].kind = "str"
              /\ st[p].records[j][st[p].fields[2].name].text # <<>>

\* C16 (as claimed): the value of a Character field is the field's text with
\* only the trailing whitespace and padding removed; whitespace at the start
\* of the field is kept.
C16_OnlyTrailingStripped ==
    \A p \in Procs :
        (st[p].pc = "returned" /\ WellFormed(file[p])) =>
            \A j \in 1..Len(st[p].records) : \A k \in 1..Len(st[p].fields) :
                (st[p].fields[k].field_type = TYPE_C /\ LastNamed(st[p].fields, k)) =>
                    st[p].records[j][st[p].fields[k].name] =
                        StrVal(RStrip(Utf8DecodeIgnore(RawField(EmittedBytes(p, j), st[p].fields, k)),
                                      StrWhitespace \cup {NUL}))

\* C17: a Numeric field whose text parses is a float when its bytes hold a
\* '.', an integer when they hold none: never an integer with a '.', never a
\* float without one.
C17_KindByDot ==
    \A p \in Procs :
        InRecords(st[p]) =>
            \A j \in 1..Len(st[p].records) : \A k \in 1..Len(st[p].fields) :
                LET raw == RawField(EmittedBytes(p, j), st[p].fields, k)
                    d == st[p].records[j][st[p].fields[k].name]
                IN  (/\ st[p].fields[k].field_type = TYPE_N
                     /\ LastNamed(st[p].fields, k)
                     /\ IsNumberText(raw)) =>
                        /\ d.kind \in {"int", "float"}
                        /\ d.kind = "float" <=> \E x \in 1..Len(raw) : raw[x] = DOT

\* Returned records with a float read from "1." and an integer read from
\* digits alone.
C17_Witness ==
    \E p \in Procs :
        /\ st[p].pc = "returned"
        /\ \E j, i \in 1..Len(st[p].records) : \E k, m \in 1..Len(st[p].fields) :
              /\ st[p].fields[k].field_type = TYPE_N
              /\ st[p].fields[m].field_type = TYPE_N
              /\ RawField(EmittedBytes(p, j), st[p].fields, k) = <<49, DOT>>
              /\ st[p].records[j][st[p].fields[k].name] = FloatVal(1, 0)
              /\ ~HasDot(RawField(EmittedBytes(p, i), st[p].fields, m))
              /\ st[p].records[i][st[p].fields[m].name] = IntVal(12)

\* C18: decoding the value of a Character field never raises, whatever bytes
\* the field holds: no error comes out of the record loop but that of an
\* absent record, every record read that is not marked deleted is emitted,
\* and its Character fields hold text.
C18_CharacterNeverRaises ==
    \A p \in Procs :
        /\ (st[p].pc = "raised" /\ st[p].i > 0) =>
              /\ st[p].error = "IndexError"
              /\ BytesOfRecord(file[p], st[p].header_len, st[p].record_len, st[p].i - 1) = <<>>
        /\ InRecords(st[p]) =>
              /\ Len(st[p].records) = Len(EmittedFrom(p))
              /\ \A j \in 1..Len(st[p].records) : \A k \in 1..Len(st[p].fields) :
                    (st[p].fields[k].field_type = TYPE_C /\ LastNamed(st[p].fields, k)) =>
                        /\ st[p].fields[k].name \in DOMAIN st[p].records[j]
                        /\ st[p].records[j][st[p].fields[k].name].kind = "str"

\* A returned record whose Character field held the byte 0xFF before an 'L'.
C18_Witness ==
    \E p \in Procs :
        /\ st[p].pc = "returned"
        /\ \E j \in 1..Len(st[p].records) : \E k \in 1..Len(st[p].fields) :
              /\ st[p].fields[k].field_type = TYPE_C
              /\ RawField(EmittedBytes(p, j), st[p].fields, k) = <<255, 76>>
              /\ st[p].records[j][st[p].fields[k].name] = StrVal(<<76>>)

\* The call has read the header.
PastHeader(s) ==
    \/ s.pc \in {"fields", "seek", "records", "returned"}
    \/ (s.pc = "raised" /\ s.error # "struct.error")

\* C19: the record count is b4 + 256*b5 + 65536*b6 + 16777216*b7 of the
\* header, the header length b8 + 256*b9 and the record length b10 + 256*b11;
\* no other byte of the header has a part in them.
C19_HeaderLittleEndian ==
    \A p \in Procs :
        PastHeader(st[p]) =>
            /\ st[p].num_records =
                  file[p][5] + 256 * file[p][6] + 65536 * file[p][7] + 16777216 * file[p][8]
            /\ st[p].header_len = file[p][9] + 256 * file[p][10]
            /\ st[p].record_len = file[p][11] + 256 * file[p][12]

\* A header read with all four bytes of the count and both bytes of the
\* header length in use, and other header bytes that are not the usual ones.
C19_Witness ==
    \E p \in Procs :
        /\ PastHeader(st[p])
        /\ \A k \in 5..10 : file[p][k] # 0
        /\ file[p][1] # 3
        /\ file[p][13] # 0
        /\ st[p].num_records = 67305985
        /\ st[p].header_len = 513

---------------------------------------------------------------------------
(* read_dbf of create_simplified_ta_geojson.py (lines 12-58), as a         *)
(* function of the file's bytes.                                           *)

Simplified_Raised(err) == [outcome |-> "raised", error |-> err, records |-> <<>>]

Simplified_Returned(records) == [outcome |-> "returned", error |-> "none", records |-> records]

\* Lines 24-31: the descriptor loop from position pos on; the error it
\* raises, or "none", and the fields.
RECURSIVE Simplified_Fields(_, _, _, _)
Simplified_Fields(f, header_len, pos, fields) ==
    IF ~(pos < header_len - 1) THEN [error |-> "none", fields |-> fields]
    ELSE LET field_data == FileRead(f, pos, DESCRIPTOR_SIZE)
             name == Strip(Slice(field_data, 0, 11), {NUL})
         IN  IF field_data = <<>> THEN [error |-> "IndexError", fields |-> fields]
             ELSE IF field_data[1] = FIELD_TERMINATOR THEN [error |-> "none", fields |-> fields]
             ELSE IF ~Utf8Valid(name) THEN [error |-> "UnicodeDecodeError", fields |-> fields]
             ELSE IF Len(field_data) < 17 THEN [error |-> "IndexError", fields |-> fields]
             ELSE Simplified_Fields(f, header_len, pos + Len(field_data),
                      Append(fields, [name |-> name, field_type |-> field_data[12],
                                      field_len |-> field_data[17]]))

\* Lines 46-53.
Simplified_Numeric(value) ==
    IF \E x \in 1..Len(value) : value[x] = DOT
    THEN IF FloatParses(value) THEN FloatOf(value) ELSE IntVal(0)
    ELSE IF IntParses(value) THEN IntVal(IntOf(value)) ELSE IntVal(0)

\* Lines 42-54: the loop over fields, from field k on.
RECURSIVE Simplified_RecordData(_, _, _, _, _)
Simplified_RecordData(record, fields, k, offset, record_data) ==
    IF k > Len(fields) THEN record_data
    ELSE LET fld == fields[k]
             value == Strip(Slice(record, offset, offset + fld.field_len), BytesWhitespace)
             stored ==
                 IF fld.field_type = TYPE_C
                 THEN (fld.name :> StrVal(Strip(Utf8DecodeIgnore(value), StrWhitespace)))
                          @@ record_data
                 ELSE IF fld.field_type = TYPE_N
                 THEN (fld.name :> Simplified_Numeric(value)) @@ record_data
                 ELSE record_data
         IN  Simplified_RecordData(record, fields, k + 1, offset + fld.field_len, stored)

\* Variant of Simplified_IsDeleted that skips no record.
Simplified_NeverDeleted(record) == FALSE

\* Line 38.
Simplified_IsDeleted(record) == record[1] = DELETED_FLAG

\* Lines 36-55: the record loop from iteration i on.
RECURSIVE Simplified_Records(_, _, _, _, _, _, _)
Simplified_Records(f, fields, num_records, record_len, pos, i, records) ==
    IF i >= num_records THEN Simplified_Returned(records)
    ELSE LET record == FileRead(f, pos, record_len)
         IN  IF record = <<>> THEN Simplified_Raised("IndexError")
             ELSE Simplified_Records(f, fields, num_records, record_len,
                      pos + Len(record), i + 1,
                      IF Simplified_IsDeleted(record) THEN records
                      ELSE Append(records,
                               Simplified_RecordData(record, fields, 1, 1, EmptyDict)))

\* Lines 14-57.
Simplified_read_dbf(f) ==
    LET header == FileRead(f, 0, HEADER_SIZE) IN
    IF Len(Slice(header, 4, 8)) # 4 \/ Len(Slice(header, 8, 10)) # 2
       \/ Len(Slice(header, 10, 12)) # 2
    THEN Simplified_Raised("struct.error")
    ELSE LET num_records == UnpackLE(Slice(header, 4, 8))
             header_len == UnpackLE(Slice(header, 8, 10))
             record_len == UnpackLE(Slice(header, 10, 12))
             parsed == Simplified_Fields(f, header_len, HEADER_SIZE, <<>>)
         IN  IF parsed.error # "none" THEN Simplified_Raised(parsed.error)
             ELSE Simplified_Records(f, parsed.fields, num_records, record_len,
                                     header_len, 0, <<>>)

\* C20: the read_dbf of generate_complete_ta_data.py and the read_dbf of
\* create_simplified_ta_geojson.py agree on every file: both return the same
\* records in the same order, or both fail.
C20_ReadersAgree ==
    \A p \in Procs :
        Finished(st[p]) =>
            /\ st[p].pc = "returned" <=> Simplified_read_dbf(file[p]).outcome = "returned"
            /\ st[p].pc = "returned" => st[p].records = Simplified_read_dbf(file[p]).records

\* Both readers returned the one live record of a file that holds a record
\* marked deleted.
C20_Witness ==
    \E p \in Procs :
        /\ st[p].pc = "returned"
        /\ Len(st[p].records) = 1
        /\ st[p].records[1] # EmptyDict
        /\ Simplified_read_dbf(file[p]).records = st[p].records
        /\ \E i \in 0..(st[p].num_records - 1) : RecordAt(file[p], i)[1] = DELETED_FLAG

---------------------------------------------------------------------------
(* Keys of the records, and termination.                                   *)

\* The names of the parsed descriptors.
FieldNames(fields) == {fields[k].name : k \in 1..Len(fields)}

\* The last field of a name.
LastOfName(fields, name) ==
    CHOOSE k \in 1..Len(fields) :
        /\ fields[k].name = name
        /\ \A m \in (k + 1)..Len(fields) : fields[m].name # name

\* The values the bytes of a field can be decoded to.
DecodesOf(raw) ==
    {CharacterValue(Strip(raw, BytesWhitespace)), NumericValue(Strip(raw, BytesWhitespace))}

\* C21 (as claimed): all records of one call have the same key set, fixed by
\* the parsed descriptors alone; when two descriptors carry the same name a
\* record holds one entry for that name, and its value comes from the later
\* of the two fields.
C21_SameKeysLaterWins ==
    \A p \in Procs :
        (st[p].pc = "returned" /\ WellFormed(file[p])) =>
            \A j \in 1..Len(st[p].records) :
                /\ DOMAIN st[p].records[j] = DOMAIN st[p].records[1]
                /\ DOMAIN st[p].records[j] \subseteq FieldNames(st[p].fields)
                /\ \A k, m \in 1..Len(st[p].fields) :
                      (/\ k < m
                       /\ st[p].fields[k].name = st[p].fields[m].name
                       /\ m = LastOfName(st[p].fields, st[p].fields[m].name)
                       /\ st[p].fields[m].name \in DOMAIN st[p].records[j]) =>
                          st[p].records[j][st[p].fields[m].name] \in
                              DecodesOf(RawField(EmittedBytes(p, j), st[p].fields, m))

\* What holds of the code: the key set is the names of the fields of type
\* 'C' or 'N', and the value under a name is that of the last such field.
C21_KeysOfStoredFields ==
    \A p \in Procs :
        InRecords(st[p]) =>
            \A j \in 1..Len(st[p].records) :
                /\ DOMAIN st[p].records[j] =
                      {st[p].fields[k].name : k \in {x \in 1..Len(st[p].fields) : Stored(st[p].fields[x])}}
                /\ \A k \in 1..Len(st[p].fields) :
                      (Stored(st[p].fields[k]) /\ LastNamed(st[p].fields, k)) =>
                          st[p].records[j][st[p].fields[k].name] =
                              ValueOfBytes(st[p].fields[k],
                                           RawField(EmittedBytes(p, j), st[p].fields, k))

\* Files for the runs to the end: field names of the full 11 bytes, tables of
\* no, one and two fields, under skewed headers and cut short, and the
\* headers of large values.
ColLongA == [name |-> [k \in 1..11 |-> 65], field_type |-> TYPE_C, field_len |-> 2]

ColLongB == [name |-> [k \in 1..11 |-> 66], field_type |-> TYPE_N, field_len |-> 2]

LongSchemas == {<<>>, <<ColLongA>>, <<ColLongA, ColLongB>>}

LiveFiles ==
    {BuildSkewed(ds, rows, k[1], k[2], k[3]) :
        ds \in LongSchemas, rows \in SeqsUpTo(PlainRows, MaxRecords), k \in Skews}
    \cup UNION {{SubSeq(BuildFile(ds, rows), 1, n) : n \in CutPoints(BuildFile(ds, rows))} :
                ds \in LongSchemas, rows \in SeqsUpTo(PlainRows, MaxRecords)}
    \cup OtherHeaderFiles

InitLive ==
    /\ file \in {<<f, <<>> >> : f \in LiveFiles}
    /\ st = [p \in Procs |-> IF p = 1 THEN Called ELSE NotCalled]
    /\ data_cache = NoData
    /\ gp = GpIdle
    /\ OthersIdle

\* A call executes its next statement as long as it has one.
SpecLive == InitLive /\ [][Next]_vars /\ WF_st(Next)

\* How a call left the descriptor loop, once it has: by the 0x0D entry, by
\* the read position, or by an error.
LeftFieldsBy(s) ==
    IF s.pc = "seek" THEN "terminator"
    ELSE IF s.pc = "raised" /\ s.i = 0 /\ s.error # "struct.error" THEN "error"
    ELSE IF s.pc \in {"fields", "records", "returned"} \/ (s.pc = "raised" /\ s.i > 0)
    THEN "position or terminator"
    ELSE "not yet"

---------------------------------------------------------------------------
(* The counts of the places response.                                      *)

\* The request's bounds were accepted and the request has been answered.
Handled == gp.pc = "done" /\ gp.status # 400

Meta(name) == gp.result[Text_meta].dict[name]

\* C23 (as claimed): meta[dataset] is the number of rows inside the box
\* before the limit is applied, and a dataset that is unknown or whose table
\* is empty gives meta[dataset] = 0 and an empty list, not an error.
C23_MetaCountsBox ==
    Handled =>
        /\ gp.status = 200
        /\ \A name \in Requested :
              /\ name \in DOMAIN gp.result
              /\ gp.result[name].kind = "list"
              /\ name \in DOMAIN gp.result[Text_meta].dict
              /\ IF LoadedNonEmpty(name)
                 THEN Meta(name) = CountVal(Cardinality(RowsInBox(name)))
                 ELSE Meta(name) = CountVal(0) /\ gp.result[name].list = <<>>

---------------------------------------------------------------------------
(* get_places_v1 of api/main.py (lines 162-185).                           *)

\* A request to get_places_v1: confidence_min is None unless filtering.
V1Request(filtering, confidence_min) ==
    [pc |-> "call", filtering |-> filtering, confidence_min |-> confidence_min, status |-> 0]

\* Lines 179-182: the places of one list that pass the filter.
RECURSIVE ConfidentPlaces(_, _)
ConfidentPlaces(places, confidence_min) ==
    IF places = <<>> THEN <<>>
    ELSE IF Head(places).confidence >= confidence_min
    THEN <<Head(places)>> \o ConfidentPlaces(Tail(places), confidence_min)
    ELSE ConfidentPlaces(Tail(places), confidence_min)

\* Lines 177-183: the loop over datasets.split(","), from name k on; the names
\* are taken as they stand between the commas.
RECURSIVE FilterDatasets(_, _, _, _)
FilterDatasets(result, names, k, confidence_min) ==
    IF k > Len(names) THEN result
    ELSE IF names[k] \in DOMAIN result
    THEN LET kept == ConfidentPlaces(result[names[k]].list, confidence_min)
         IN  FilterDatasets(
                 SetMeta(SetItem(result, names[k], ListVal(kept)), names[k], CountVal(Len(kept))),
                 names, k + 1, confidence_min)
    ELSE FilterDatasets(result, names, k + 1, confidence_min)

\* Lines 173-185, once get_places has answered: its exception passes through,
\* its result is filtered when confidence_min is given.
V1Return ==
    /\ v1.pc = "call"
    /\ gp.pc = "done"
    /\ v1' = [v1 EXCEPT !.pc = "done", !.status = gp.status]
    /\ gp' = IF gp.status = 200 /\ v1.filtering
             THEN [gp EXCEPT !.result =
                      FilterDatasets(gp.result, Split(gp.dataset), 1, v1.confidence_min)]
             ELSE gp
    /\ UNCHANGED <<file, st, data_cache, afterV1>>

NextV1 == GpValidate \/ GpDataset \/ GpFinish \/ V1Return

\* "churches", " churches ,schools", "churches,nowhere", "schools, churches",
\* "meta".
V1DatasetTexts ==
    DatasetTexts
    \cup {Text_schools \o <<COMMA, 32>> \o Text_churches, Text_meta}

V1Requests ==
    [bounds : {BoxBounds}, dataset : V1DatasetTexts, limit : {1, MaxLimit, DEFAULT_LIMIT},
     table : {WithIds(rows) : rows \in SeqsUpTo(PlaceChoices, MaxRows - 1)},
     filtering : {TRUE}, confidence_min : {0, 3, 10}]
    \cup [bounds : {BoxBounds, <<>>}, dataset : {Text_churches}, limit : {DEFAULT_LIMIT},
          table : {SmallTable}, filtering : {FALSE}, confidence_min : {0}]

InitV1 ==
    /\ file = [p \in Procs |-> <<>>]
    /\ st = [p \in Procs |-> NotCalled]
    /\ \E req \in V1Requests :
          /\ data_cache = LoadedData(req.table)
          /\ gp = GpRequest(req.bounds, req.dataset, req.limit)
          /\ v1 = V1Request(req.filtering, req.confidence_min)
    /\ AfterV1Idle

SpecV1 == InitV1 /\ [][NextV1]_vars

\* get_places_v1 has answered a request that gave confidence_min.
V1Answered == v1.pc = "done" /\ v1.status = 200 /\ v1.filtering

\* The datasets the request names: the pieces of the text between the
\* commas, without the spaces around them.
V1Requested == {Strip(Split(gp.dataset)[k], StrWhitespace) : k \in 1..Len(Split(gp.dataset))}

\* C24 (as claimed): with confidence_min set, every place returned under
\* every requested dataset has confidence >= confidence_min, and
\* meta[dataset] is the length of that dataset's list, for every datasets
\* text that get_places accepts, names with spaces around them included.
C24_ConfidenceFiltered ==
    V1Answered =>
        \A name \in V1Requested :
            /\ \A k \in 1..Len(gp.result[name].list) :
                  gp.result[name].list[k].confidence >= v1.confidence_min
            /\ Meta(name) = CountVal(Len(gp.result[name].list))

---------------------------------------------------------------------------
(* The root endpoint of api/quick_api.py (lines 63-114).                   *)

\* A request, with the module-level df of lines 24-46.
QaRequest(bounds, dataset, limit, df) ==
    [QaIdle EXCEPT !.pc = "call", !.bounds = bounds, !.dataset = dataset,
                   !.limit = limit, !.df = df]

\* Lines 68-73: four pieces that float() takes; HTTP 400 otherwise.
QaBoundsAccepted(bounds) ==
    /\ \A k \in 1..Len(Split(bounds)) : FloatTextParses(Split(bounds)[k])
    /\ Len(BoundsList(bounds)) = 4

\* Lines 79-82: lng between bounds_list[0] and bounds_list[2], lat between
\* bounds_list[1] and bounds_list[3], both ends included.
QaInBounds(row, b) ==
    /\ Le(b[1], Num(row.lng)) /\ Le(Num(row.lng), b[3])
    /\ Le(b[2], Num(row.lat)) /\ Le(Num(row.lat), b[4])

RECURSIVE QaFilter(_, _)
QaFilter(rows, b) ==
    IF rows = <<>> THEN <<>>
    ELSE IF QaInBounds(Head(rows), b) THEN <<Head(rows)>> \o QaFilter(Tail(rows), b)
    ELSE QaFilter(Tail(rows), b)

\* Line 86: DataFrame.sample(n): n distinct rows in any order.
Samples(rows, n) ==
    {[k \in 1..n |-> rows[pick[k]]] :
        pick \in {f \in [1..n -> 1..Len(rows)] : \A i, j \in 1..n : f[i] = f[j] => i = j}}

\* Lines 68-73.
DoQaValidate(q) ==
    IF ~QaBoundsAccepted(q.bounds) THEN [q EXCEPT !.pc = "done", !.status = 400]
    ELSE [q EXCEPT !.pc = "filter", !.bounds_list = BoundsList(q.bounds)]

\* Lines 96-102: the meta dictionary.
QaMeta(dataset, result_data) ==
    (Text_churches :> CountVal(IF dataset = Text_churches THEN Len(result_data) ELSE 0))
    @@ (Text_schools :> CountVal(0)) @@ (Text_townhalls :> CountVal(0))

\* Lines 78-102, with the rows that line 86 sampled: sample raises a
\* ValueError on a negative limit.
DoQaFilter(q, sampled) ==
    LET filtered_df == QaFilter(q.df, q.bounds_list)
        result_data == IF q.df = <<>> THEN <<>>
                       ELSE IF Len(filtered_df) > q.limit THEN sampled
                       ELSE filtered_df
    IN  IF q.df # <<>> /\ Len(filtered_df) > q.limit /\ q.limit < 0
        THEN [q EXCEPT !.pc = "done", !.status = 500]
        ELSE [q EXCEPT !.pc = "loop", !.result_data = result_data, !.k = 1,
                       !.result = SetItem(EmptyDict, Text_meta,
                                          DictVal(QaMeta(q.dataset, result_data)))]

\* Lines 105-109: one name of dataset.split(",").
DoQaDataset(q) ==
    LET dataset_name == Split(q.dataset)[q.k]
    IN  [q EXCEPT !.k = q.k + 1,
                  !.result = IF dataset_name = Text_churches
                             THEN SetItem(q.result, Text_churches, ListVal(q.result_data))
                             ELSE SetItem(q.result, dataset_name, ListVal(<<>>))]

\* Lines 111-114.
DoQaReturn(q) == [q EXCEPT !.pc = "done", !.status = 200]

QaValidate ==
    /\ qa.pc = "call"
    /\ qa' = DoQaValidate(qa)
    /\ UNCHANGED <<file, st, data_cache, gp, v1, afterQa>>

QaSelect ==
    /\ qa.pc = "filter"
    /\ LET filtered_df == QaFilter(qa.df, qa.bounds_list)
       IN  \E sampled \in
               IF qa.df # <<>> /\ Len(filtered_df) > qa.limit /\ qa.limit >= 0
               THEN Samples(filtered_df, qa.limit) ELSE {<<>>} :
             qa' = DoQaFilter(qa, sampled)
    /\ UNCHANGED <<file, st, data_cache, gp, v1, afterQa>>

QaDataset ==
    /\ qa.pc = "loop"
    /\ qa.k <= Len(Split(qa.dataset))
    /\ qa' = DoQaDataset(qa)
    /\ UNCHANGED <<file, st, data_cache, gp, v1, afterQa>>

QaReturn ==
    /\ qa.pc = "loop"
    /\ qa.k > Len(Split(qa.dataset))
    /\ qa' = DoQaReturn(qa)
    /\ UNCHANGED <<file, st, data_cache, gp, v1, afterQa>>

NextQuick == QaValidate \/ QaSelect \/ QaDataset \/ QaReturn

\* "churches", "schools", "churches,schools", "schools,churches",
\* " churches", "churches,churches", "", "meta".
QaDatasetTexts ==
    {Text_churches, Text_schools, Text_churches \o <<COMMA>> \o Text_schools,
     Text_schools \o <<COMMA>> \o Text_churches, <<32>> \o Text_churches,
     Text_churches \o <<COMMA>> \o Text_churches, <<>>, Text_meta}

QaRequests ==
    [bounds : BoundsTexts, dataset : {Text_churches}, limit : {1}, df : {SmallTable}]
    \cup [bounds : {WorldBounds, BoxBounds}, dataset : QaDatasetTexts, limit : -1..MaxLimit,
          df : {WithIds(rows) : rows \in SeqsUpTo(PlaceChoices, MaxRows - 1)}]

InitQuick ==
    /\ file = [p \in Procs |-> <<>>]
    /\ st = [p \in Procs |-> NotCalled]
    /\ data_cache = NoData
    /\ gp = GpIdle
    /\ v1 = V1Idle
    /\ \E req \in QaRequests : qa = QaRequest(req.bounds, req.dataset, req.limit, req.df)
    /\ AfterQaIdle

SpecQuick == InitQuick /\ [][NextQuick]_vars

\* The root endpoint has answered with a result whose meta is a dictionary.
QaAnswered == qa.pc = "done" /\ qa.status = 200 /\ qa.result[Text_meta].kind = "dict"

\* The number of places under the "churches" key, 0 when the key is absent.
QaChurchesReturned ==
    IF Text_churches \in DOMAIN qa.result THEN Len(qa.result[Text_churches].list) ELSE 0

\* C25 (as claimed): in every response of the quick API's root endpoint,
\* meta["churches"] is the number of places returned under the "churches"
\* key, 0 when the key is absent, for every dataset text, lists included.
C25_MetaCountsChurches ==
    QaAnswered => qa.result[Text_meta].dict[Text_churches] = CountVal(QaChurchesReturned)

---------------------------------------------------------------------------
(* The cached queries of api/app.py (lines 40-126): two request threads,   *)
(* the Redis cache as keys with a text and an expiry time, the database.   *)

MaxCalls == 3

MaxTicks == 4

BOUNDARIES_TTL == 3600

DEMOGRAPHICS_TTL == 1800

LBRACE == 123

RBRACE == 125

\* Lines 81 and 124: the seconds a key is stored for.
TTL(key) == IF key = KEY_BOUNDARIES THEN BOUNDARIES_TTL ELSE DEMOGRAPHICS_TTL

\* json.dumps of a dictionary built from the rows, and json.loads of it.
Dumps(value) == <<LBRACE>> \o value \o <<RBRACE>>

Loads(text) == SubSeq(text, 2, Len(text) - 1)

\* cache.get: the text of a key that is held and has not expired, else None.
CacheGet(cache, key, now) ==
    IF cache[key].present /\ now < cache[key].expire
    THEN [none |-> FALSE, text |-> cache[key].text]
    ELSE None

\* cache.setex(key, ttl, text).
CacheSetex(cache, key, ttl, text, now) ==
    [cache EXCEPT ![key] = [present |-> TRUE, text |-> text, expire |-> now + ttl]]

\* Variant of Truthy that never takes the cached text.
NeverTruthy(cached) == FALSE

\* Lines 46 and 91: "if cached".
Truthy(cached) == ~cached.none /\ cached.text # <<>>

\* Lines 42-47 and 87-92.
DoGet(a, c) ==
    LET cached == CacheGet(a.cache, a.call[c].key, a.now)
    IN  IF Truthy(cached)
        THEN [a EXCEPT !.call[c].cached = cached, !.call[c].ret = Loads(cached.text),
                       !.call[c].pc = "done"]
        ELSE [a EXCEPT !.call[c].cached = cached, !.call[c].pc = "fetch"]

\* Lines 49-78 and 94-121: the query and the value built from its rows; an
\* exception of the query or of json.loads leaves the function.
DoFetch(a, c, ok) ==
    IF ok
    THEN [a EXCEPT !.queries = a.queries + 1, !.call[c].value = a.db, !.call[c].pc = "store"]
    ELSE [a EXCEPT !.queries = a.queries + 1, !.call[c].error = TRUE, !.call[c].pc = "done"]

\* Lines 81-83 and 124-126; stored_at remembers when.
DoStore(a, c) ==
    LET key == a.call[c].key
    IN  [a EXCEPT !.cache = CacheSetex(a.cache, key, TTL(key), Dumps(a.call[c].value), a.now),
                  !.stored_at[key] = a.now,
                  !.call[c].ret = a.call[c].value,
                  !.call[c].pc = "done"]

CaCall(c, key) ==
    /\ ca.call[c].pc \in {"idle", "done"}
    /\ ca.calls < MaxCalls
    /\ ca' = [ca EXCEPT !.calls = ca.calls + 1, !.call[c] = [CallIdle EXCEPT !.pc = "get", !.key = key]]
    /\ UNCHANGED <<file, st, data_cache, gp, v1, qa, afterCa>>

CaGet(c) ==
    /\ ca.call[c].pc = "get"
    /\ ca' = DoGet(ca, c)
    /\ UNCHANGED <<file, st, data_cache, gp, v1, qa, afterCa>>

CaFetch(c) ==
    /\ ca.call[c].pc = "fetch"
    /\ \E ok \in BOOLEAN : ca' = DoFetch(ca, c, ok)
    /\ UNCHANGED <<file, st, data_cache, gp, v1, qa, afterCa>>

CaStore(c) ==
    /\ ca.call[c].pc = "store"
    /\ ca' = DoStore(ca, c)
    /\ UNCHANGED <<file, st, data_cache, gp, v1, qa, afterCa>>

\* Time passes: a second, or all but a second of the shorter TTL.
Waits == {1, DEMOGRAPHICS_TTL - 1}

CaTick(d) ==
    /\ ca.ticks < MaxTicks
    /\ ca' = [ca EXCEPT !.now = ca.now + d, !.ticks = ca.ticks + 1]
    /\ UNCHANGED <<file, st, data_cache, gp, v1, qa, afterCa>>

\* Another program changes the tables.
DbContents == {<<>>, <<7>>}

CaDbChange(rows) ==
    /\ Len(rows) > Len(ca.db)
    /\ ca' = [ca EXCEPT !.db = rows]
    /\ UNCHANGED <<file, st, data_cache, gp, v1, qa, afterCa>>

NextCache ==
    \/ \E c \in Callers, key \in CacheKeys : CaCall(c, key)
    \/ \E c \in Callers : CaGet(c) \/ CaFetch(c) \/ CaStore(c)
    \/ \E d \in Waits : CaTick(d)
    \/ \E rows \in DbContents : CaDbChange(rows)

\* The cache is empty, or holds the boundaries of an earlier run.
InitCache ==
    /\ file = [p \in Procs |-> <<>>]
    /\ st = [p \in Procs |-> NotCalled]
    /\ data_cache = NoData
    /\ gp = GpIdle
    /\ v1 = V1Idle
    /\ qa = QaIdle
    /\ \E early \in {Absent, [present |-> TRUE, text |-> Dumps(<<7>>), expire |-> DEMOGRAPHICS_TTL]} :
          ca = [CaIdle EXCEPT !.cache[KEY_BOUNDARIES] = early]
    /\ AfterCaIdle

SpecCache == InitCache /\ [][NextCache]_vars

\* The cache holds the key at this moment.
KeyHeld(key) == ca.cache[key].present /\ ca.now < ca.cache[key].expire

\* The step is caller c's cache.get, its query, its setex.
GetStep(c) == ca.call[c].pc = "get" /\ ca'.call[c].pc # "get"

QueryStep(c) == ca.call[c].pc = "fetch" /\ ca'.call[c].pc # "fetch"

StoreStep(c) == ca.call[c].pc = "store" /\ ca'.call[c].pc = "done"

\* C26: get_sa2_boundaries_geojson and get_religious_demographics_json
\* query the database only when their key is absent: a call that finds the
\* key returns the cached value with no query; a call that misses stores the
\* value it returns under the key for 3600 s (boundaries) or 1800 s
\* (demographics); a call made after a completed miss and before that time
\* has passed is served from the cache.
C26_CachedQueries ==
    [][/\ ca'.queries # ca.queries =>
             \E c \in Callers : QueryStep(c) /\ ca.call[c].cached.none
       /\ \A c \in Callers :
             LET key == ca.call[c].key
                 fresh == /\ ca.stored_at[key] >= 0
                          /\ ca.now < ca.stored_at[key] +
                                (IF key = KEY_BOUNDARIES THEN 3600 ELSE 1800)
             IN  /\ GetStep(c) /\ (KeyHeld(key) \/ fresh) =>
                       /\ KeyHeld(key)
                       /\ ca'.call[c].pc = "done"
                       /\ ~ca'.call[c].error
                       /\ ca'.call[c].ret = Loads(ca.cache[key].text)
                       /\ ca'.queries = ca.queries
                       /\ ca'.cache = ca.cache
                 /\ GetStep(c) /\ ~KeyHeld(key) => ca'.call[c].pc = "fetch"
                 /\ StoreStep(c) =>
                       /\ ca'.call[c].ret = ca.call[c].value
                       /\ ca'.cache[key] =
                             [present |-> TRUE, text |-> Dumps(ca'.call[c].ret),
                              expire |-> ca.now + (IF key = KEY_BOUNDARIES THEN 3600 ELSE 1800)]
                       /\ Loads(ca'.cache[key].text) = ca'.call[c].ret]_vars

\* A call was served from the cache in the last second of the boundaries'
\* hour, after one miss, with the table changed since.
C26_Witness ==
    \E c \in Callers :
        /\ ca.call[c].pc = "done"
        /\ ca.call[c].key = KEY_BOUNDARIES
        /\ ~ca.call[c].cached.none
        /\ ca.stored_at[KEY_BOUNDARIES] = 0
        /\ ca.now = 3599
        /\ ca.queries = 1
        /\ ca.call[c].ret # ca.db

---------------------------------------------------------------------------
(* extract_country_data and get_next_server of                             *)
(* scripts/extract_real_global_data.py (lines 94-98, 128-188, 378-390):    *)
(* the worker threads take the queued countries one after another.         *)

MaxCountries == 2

SERVERS == 3

MAX_RETRIES == 3

\* What requests.post and the lines after it end in: elements written to the
\* cache file, a write that fails part way, or the exception caught.
Outcomes == {"ok", "write_fails", "Timeout", "RequestException", "Exception"}

\* Variant of CanRetry that allows one more attempt.
CanRetryInclusive(retry_count) == retry_count <= MAX_RETRIES

\* Lines 174 and 181.
CanRetry(retry_count) == retry_count < MAX_RETRIES

\* Line 388: the executor gives the next queued country to a free thread.
DoSubmit(e, w) ==
    [e EXCEPT !.queued = e.queued + 1,
              !.th[w] = [WorkerIdle EXCEPT !.pc = "cache", !.country = e.queued + 1]]

\* Lines 135-144: a cache file that loads is returned; one that does not
\* load, or no file, goes on to the request.
DoCheckCache(e, w) ==
    IF e.cache_file[e.th[w].country] = "valid"
    THEN [e EXCEPT !.th[w].pc = "returned", !.th[w].result = "cached"]
    ELSE [e EXCEPT !.th[w].pc = "server"]

\* Line 96: the server at the index.
DoReadServer(e, w) == [e EXCEPT !.th[w].server = e.current_server, !.th[w].pc = "load"]

\* Line 97, the read of self.current_server.
DoLoadIndex(e, w) == [e EXCEPT !.th[w].index = e.current_server, !.th[w].pc = "store"]

\* Line 97, the write, and line 98; calls counts the completed calls modulo
\* the number of servers.
DoStoreIndex(e, w) ==
    [e EXCEPT !.current_server = (e.th[w].index + 1) % SERVERS,
              !.calls = (e.calls + 1) % SERVERS,
              !.th[w].index = 0,
              !.th[w].pc = "post"]

\* Lines 147-188: the request and what follows it.
DoPost(e, w, outcome) ==
    LET t == [e.th[w] EXCEPT !.requests = e.th[w].requests + 1, !.server = 0]
        country == t.country
    IN  IF outcome = "ok"
        THEN [e EXCEPT !.cache_file[country] = "valid",
                       !.th[w] = [t EXCEPT !.succeeded = TRUE, !.wrote = TRUE,
                                           !.caught = "none",
                                           !.result = "elements", !.pc = "returned"]]
        ELSE IF outcome = "write_fails"
        THEN [e EXCEPT !.cache_file[country] = "corrupt",
                       !.th[w] = [t EXCEPT !.succeeded = TRUE, !.wrote = TRUE,
                                           !.caught = "Exception",
                                           !.result = "empty", !.pc = "returned"]]
        ELSE IF outcome \in {"Timeout", "RequestException"} /\ CanRetry(t.retry_count)
        THEN [e EXCEPT !.th[w] = [t EXCEPT !.caught = outcome,
                                           !.retry_count = t.retry_count + 1,
                                           !.pc = "cache"]]
        ELSE [e EXCEPT !.th[w] = [t EXCEPT !.caught = outcome,
                                           !.result = "empty", !.pc = "returned"]]

ExSubmit(w) ==
    /\ ex.th[w].pc \in {"idle", "returned"}
    /\ ex.queued < MaxCountries
    /\ ex' = DoSubmit(ex, w)
    /\ UNCHANGED <<file, st, data_cache, gp, v1, qa, ca, afterEx>>

ExCheckCache(w) ==
    /\ ex.th[w].pc = "cache"
    /\ ex' = DoCheckCache(ex, w)
    /\ UNCHANGED <<file, st, data_cache, gp, v1, qa, ca, afterEx>>

ExReadServer(w) ==
    /\ ex.th[w].pc = "server"
    /\ ex' = DoReadServer(ex, w)
    /\ UNCHANGED <<file, st, data_cache, gp, v1, qa, ca, afterEx>>

ExLoadIndex(w) ==
    /\ ex.th[w].pc = "load"
    /\ ex' = DoLoadIndex(ex, w)
    /\ UNCHANGED <<file, st, data_cache, gp, v1, qa, ca, afterEx>>

ExStoreIndex(w) ==
    /\ ex.th[w].pc = "store"
    /\ ex' = DoStoreIndex(ex, w)
    /\ UNCHANGED <<file, st, data_cache, gp, v1, qa, ca, afterEx>>

ExPost(w) ==
    /\ ex.th[w].pc = "post"
    /\ \E outcome \in Outcomes : ex' = DoPost(ex, w, outcome)
    /\ UNCHANGED <<file, st, data_cache, gp, v1, qa, ca, afterEx>>

\* The steps of one thread inside extract_country_data.
WorkerStep(w) ==
    ExCheckCache(w) \/ ExReadServer(w) \/ ExLoadIndex(w) \/ ExStoreIndex(w) \/ ExPost(w)

NextExtract == \E w \in Workers : ExSubmit(w) \/ WorkerStep(w)

\* The first country's cache file is absent, loads, or does not load; the
\* other countries have none.
InitExtract ==
    /\ file = [p \in Procs |-> <<>>]
    /\ st = [p \in Procs |-> NotCalled]
    /\ data_cache = NoData
    /\ gp = GpIdle
    /\ v1 = V1Idle
    /\ qa = QaIdle
    /\ ca = CaIdle
    /\ AfterExIdle
    /\ \E first \in {"absent", "valid", "corrupt"} :
          ex = [ExIdle EXCEPT !.cache_file =
                   [k \in 1..MaxCountries |-> IF k = 1 THEN first ELSE "absent"]]

SpecExtract == InitExtract /\ [][NextExtract]_vars

\* One country is left in the queue, after earlier calls moved the index.
InitExtractLive ==
    /\ file = [p \in Procs |-> <<>>]
    /\ st = [p \in Procs |-> NotCalled]
    /\ data_cache = NoData
    /\ gp = GpIdle
    /\ v1 = V1Idle
    /\ qa = QaIdle
    /\ ca = CaIdle
    /\ AfterExIdle
    /\ \E last \in {"absent", "valid", "corrupt"}, index \in 0..(SERVERS - 1) :
          ex = [ExIdle EXCEPT !.queued = MaxCountries - 1,
                              !.current_server = index,
                              !.calls = index,
                              !.cache_file =
                                 [k \in 1..MaxCountries |->
                                     IF k = MaxCountries THEN last ELSE "valid"]]

\* A thread that is inside the function keeps executing it.
SpecExtractLive ==
    InitExtractLive /\ [][NextExtract]_vars /\ \A w \in Workers : WF_ex(WorkerStep(w))

\* The step is thread w's request.
PostStep(w) == ex.th[w].pc = "post" /\ ex'.th[w].pc # "post"

InCall(w) == ex.th[w].pc \notin {"idle", "returned"}

\* C27: one top-level call of extract_country_data issues at most 4 HTTP
\* requests and always terminates: after a timeout or a network error it
\* retries while retry_count < 3, after the 4th such failure it returns an
\* empty list, any other exception returns an empty list without a retry,
\* and nothing is written to the cache file unless a request succeeded.
C27_BoundedRetries ==
    /\ [](\A w \in Workers :
             /\ ex.th[w].requests <= 4
             /\ ex.th[w].wrote => ex.th[w].succeeded)
    /\ [][/\ ex'.cache_file # ex.cache_file =>
                \E w \in Workers : PostStep(w) /\ ex'.th[w].succeeded
          /\ \A w \in Workers : PostStep(w) =>
                LET old == ex.th[w]
                    new == ex'.th[w]
                IN  /\ new.requests = old.requests + 1
                    /\ new.caught \in {"Timeout", "RequestException"} =>
                          IF old.retry_count < 3
                          THEN new.pc = "cache" /\ new.retry_count = old.retry_count + 1
                          ELSE /\ new.pc = "returned" /\ new.result = "empty"
                               /\ new.requests = 4
                    /\ new.caught = "Exception" =>
                          /\ new.pc = "returned" /\ new.result = "empty"
                          /\ new.retry_count = old.retry_count]_vars
    /\ \A w \in Workers : InCall(w) ~> (ex.th[w].pc = "returned")

\* A call returned an empty list after its 4th request failed, with no cache
\* file written.
C27_Witness ==
    \E w \in Workers :
        /\ ex.th[w].pc = "returned"
        /\ ex.th[w].requests = 4
        /\ ex.th[w].caught \in {"Timeout", "RequestException"}
        /\ ex.th[w].result = "empty"
        /\ ~ex.th[w].wrote
        /\ ex.cache_file[ex.th[w].country] = "absent"

\* C28 (as claimed): under any interleaving of the threads' get_next_server
\* calls the index stays within 0..2 and no rotation is lost: with no call in
\* progress, the index is the number of completed calls modulo 3.
C28_NoLostRotation ==
    /\ ex.current_server \in 0..2
    /\ (\A w \in Workers : ex.th[w].pc \notin {"load", "store"}) =>
          ex.current_server = ex.calls % 3

---------------------------------------------------------------------------
(* validate_ta_codes of test_ta_codes.py (lines 9-96). A TA code of three  *)
(* digits is its number; the default 'unknown' sorts after all of them.    *)

UNKNOWN == 1000

\* Lines 32-43.
ta_code_mapping ==
    (1 :> 12) @@ (68 :> 58) @@ (69 :> 6) @@ (70 :> 38) @@ (71 :> 11) @@ (72 :> 10)
    @@ (73 :> 46) @@ (74 :> 14) @@ (75 :> 21) @@ (76 :> 2)

\* sorted() of a set of codes.
RECURSIVE Sorted(_)
Sorted(S) ==
    IF S = {} THEN <<>>
    ELSE LET least == CHOOSE x \in S : \A y \in S : x <= y
         IN  <<least>> \o Sorted(S \ {least})

\* Lines 46-52: the codes of the features, 'unknown' for a feature with none.
BoundaryCodes(features) == {features[k] : k \in 1..Len(features)}

\* Lines 72 and 79: census[code]['2018']['name'] if '2018' in census[code];
\* a KeyError when the 2018 entry has no name.
NameLookupRaises(entry) == entry = "2018_counts"

\* Lines 14-20.
DoLoadBoundaries(t) ==
    IF ~t.boundaries_file.exists THEN [t EXCEPT !.pc = "done", !.result = "False"]
    ELSE [t EXCEPT !.pc = "census"]

\* Lines 23-63.
DoLoadCensus(t) ==
    IF ~t.census_file.exists THEN [t EXCEPT !.pc = "done", !.result = "False"]
    ELSE [t EXCEPT !.pc = "loop", !.census = t.census_file.census, !.k = 1,
                   !.boundary_codes = Sorted(BoundaryCodes(t.boundaries_file.codes))]

\* Lines 69-70 and 78: the census code a boundary code is looked up under.
CensusCode(boundary_code) ==
    IF boundary_code \in DOMAIN ta_code_mapping THEN ta_code_mapping[boundary_code]
    ELSE boundary_code

\* Lines 65-82: one code of the loop.
DoCheckCode(t) ==
    LET census_code == CensusCode(t.boundary_codes[t.k])
    IN  IF census_code \in DOMAIN t.census
        THEN IF NameLookupRaises(t.census[census_code])
             THEN [t EXCEPT !.pc = "done", !.result = "KeyError"]
             ELSE [t EXCEPT !.k = t.k + 1, !.working_mappings = t.working_mappings + 1]
        ELSE [t EXCEPT !.k = t.k + 1, !.missing_mappings = t.missing_mappings + 1]

\* Lines 85-96.
DoReport(t) ==
    [t EXCEPT !.pc = "done",
              !.result = IF t.missing_mappings > 0 THEN "False" ELSE "True"]

TaLoadBoundaries ==
    /\ ta.pc = "call"
    /\ ta' = DoLoadBoundaries(ta)
    /\ UNCHANGED <<file, st, data_cache, gp, v1, qa, ca, ex, afterTa>>

TaLoadCensus ==
    /\ ta.pc = "census"
    /\ ta' = DoLoadCensus(ta)
    /\ UNCHANGED <<file, st, data_cache, gp, v1, qa, ca, ex, afterTa>>

TaCheckCode ==
    /\ ta.pc = "loop"
    /\ ta.k <= Len(ta.boundary_codes)
    /\ ta' = DoCheckCode(ta)
    /\ UNCHANGED <<file, st, data_cache, gp, v1, qa, ca, ex, afterTa>>

TaReport ==
    /\ ta.pc = "loop"
    /\ ta.k > Len(ta.boundary_codes)
    /\ ta' = DoReport(ta)
    /\ UNCHANGED <<file, st, data_cache, gp, v1, qa, ca, ex, afterTa>>

NextTa == TaLoadBoundaries \/ TaLoadCensus \/ TaCheckCode \/ TaReport

MaxFeatures == 2

\* Codes of features: two of the mapping, the census code of one of them,
\* one outside the mapping, and a feature without a code.
FeatureCodes == {1, 76, 2, 12, 43, UNKNOWN}

\* Census entries: a name only, a 2018 entry that has a name, and the shape
\* process_stats_nz_ta_data.py writes: a name and the 2018 counts.
EntryShapes == {"name_only", "2018_named", "2018_counts"}

CensusTables ==
    UNION {[codes -> EntryShapes] : codes \in SUBSET {1, 2, 12, 43}}

TaFiles ==
    [boundaries : {NoFile} \cup {[exists |-> TRUE, codes |-> f, census |-> <<>>] :
                                    f \in SeqsUpTo(FeatureCodes, MaxFeatures)},
     census : {NoFile} \cup {[exists |-> TRUE, codes |-> <<>>, census |-> c] :
                                c \in CensusTables}]

InitTa ==
    /\ file = [p \in Procs |-> <<>>]
    /\ st = [p \in Procs |-> NotCalled]
    /\ data_cache = NoData
    /\ gp = GpIdle
    /\ v1 = V1Idle
    /\ qa = QaIdle
    /\ ca = CaIdle
    /\ ex = ExIdle
    /\ AfterTaIdle
    /\ \E files \in TaFiles :
          ta = [TaIdle EXCEPT !.pc = "call", !.boundaries_file = files.boundaries,
                              !.census_file = files.census]

SpecTa == InitTa /\ [][NextTa]_vars

\* A code of the boundaries resolves: through the mapping when it is listed
\* there, by direct match otherwise.
Resolves(code) ==
    IF code \in DOMAIN ta_code_mapping
    THEN ta_code_mapping[code] \in DOMAIN ta.census_file.census
    ELSE code \in DOMAIN ta.census_file.census

\* C29 (as claimed): validate_ta_codes returns True exactly when both files
\* load and every TA code of the boundaries resolves to a census entry, and
\* False otherwise.
C29_TrueWhenAllResolve ==
    ta.pc = "done" =>
        ta.result =
            IF /\ ta.boundaries_file.exists
               /\ ta.census_file.exists
               /\ \A code \in BoundaryCodes(ta.boundaries_file.codes) : Resolves(code)
            THEN "True" ELSE "False"

---------------------------------------------------------------------------
(* extract_places and generate_summary of scripts/extract_osm_places.py    *)
(* (lines 368-449). An element is what the code asks of it: whether it is  *)
(* tagged a place of worship, has coordinates, has an address.             *)

MaxElements == 3

Elements == [worship : BOOLEAN, coordinates : BOOLEAN, address : BOOLEAN]

\* Lines 210-259: None for an element that is no place of worship or has no
\* coordinates.
Skipped(element) == ~element.worship \/ ~element.coordinates

process_osm_element(element) == [address |-> element.address]

\* Lines 291-317 and 373: the elements of the response, or the exception.
DoFetchOsm(o, ok) ==
    IF ok THEN [o EXCEPT !.raw_elements = o.response, !.pc = "save_raw"]
    ELSE [o EXCEPT !.result = "RequestException", !.pc = "done"]

\* Lines 376-380.
DoSaveRaw(o) == [o EXCEPT !.raw_saved = TRUE, !.k = 1, !.pc = "loop"]

\* Lines 382-387: one element.
DoProcessElement(o) ==
    LET element == o.raw_elements[o.k]
    IN  IF Skipped(element) THEN [o EXCEPT !.skipped = o.skipped + 1, !.k = o.k + 1]
        ELSE [o EXCEPT !.places = Append(o.places, process_osm_element(element)),
                       !.k = o.k + 1]

\* Lines 389-392.
DoSaveProcessed(o) == [o EXCEPT !.processed_saved = TRUE, !.pc = "summary"]

\* Lines 429-430: the places that have an address.
HasAddress(places) == Cardinality({k \in 1..Len(places) : places[k].address})

\* Lines 404-449 and 397-402: the percentages divide by len(places).
DoSummary(o) ==
    IF Len(o.places) = 0
    THEN [o EXCEPT !.result = "ZeroDivisionError", !.pc = "done"]
    ELSE [o EXCEPT !.summary = [total_places |-> Len(o.places),
                                has_address |-> HasAddress(o.places),
                                percent |-> (HasAddress(o.places) * 100) \div Len(o.places)],
                   !.result = "returned", !.pc = "done"]

OsmFetch ==
    /\ osm.pc = "call"
    /\ \E ok \in BOOLEAN : osm' = DoFetchOsm(osm, ok)
    /\ UNCHANGED <<file, st, data_cache, gp, v1, qa, ca, ex, ta>>

OsmSaveRaw ==
    /\ osm.pc = "save_raw"
    /\ osm' = DoSaveRaw(osm)
    /\ UNCHANGED <<file, st, data_cache, gp, v1, qa, ca, ex, ta>>

OsmProcessElement ==
    /\ osm.pc = "loop"
    /\ osm.k <= Len(osm.raw_elements)
    /\ osm' = DoProcessElement(osm)
    /\ UNCHANGED <<file, st, data_cache, gp, v1, qa, ca, ex, ta>>

OsmSaveProcessed ==
    /\ osm.pc = "loop"
    /\ osm.k > Len(osm.raw_elements)
    /\ osm' = DoSaveProcessed(osm)
    /\ UNCHANGED <<file, st, data_cache, gp, v1, qa, ca, ex, ta>>

OsmSummary ==
    /\ osm.pc = "summary"
    /\ osm' = DoSummary(osm)
    /\ UNCHANGED <<file, st, data_cache, gp, v1, qa, ca, ex, ta>>

NextOsm == OsmFetch \/ OsmSaveRaw \/ OsmProcessElement \/ OsmSaveProcessed \/ OsmSummary

InitOsm ==
    /\ file = [p \in Procs |-> <<>>]
    /\ st = [p \in Procs |-> NotCalled]
    /\ data_cache = NoData
    /\ gp = GpIdle
    /\ v1 = V1Idle
    /\ qa = QaIdle
    /\ ca = CaIdle
    /\ ex = ExIdle
    /\ ta = TaIdle
    /\ \E response \in SeqsUpTo(Elements, MaxElements) :
          osm = [OsmIdle EXCEPT !.pc = "call", !.response = response]

SpecOsm == InitOsm /\ [][NextOsm]_vars

\* C30 (as claimed): extract_places returns a result with a summary for
\* every list of fetched elements, a list that yields no place included:
\* generate_summary completes when the list of places is empty.
C30_SummaryForEveryList ==
    (osm.pc = "done" /\ osm.raw_saved) =>
        /\ osm.result = "returned"
        /\ osm.summary.total_places = Len(osm.places)

=============================================================================
